---- MODULE Spec2Model ----
(***************************************************************************)
(* Verification model of the deep-research engine (backend/research).      *)
(*                                                                         *)
(* The specifications of this module:                                      *)
(*   SpecStore    - concurrent callers of the shared deduplication store   *)
(*                  (state_manager.py: RedisStateManager in front of       *)
(*                  DatabaseStateManager);                                 *)
(*   Spec         - the DeepResearchOrchestrator workflow (workflows.py)   *)
(*                  with its parallel worker iterations (activities.py);   *)
(*   SpecFail     - the workflow with failing activities;                  *)
(*   SpecLlm      - the LLM calls (llm.py, agent.py, link_scorer.py);      *)
(*   SpecRepo     - the ResearchRepository (db/repository.py);             *)
(*   SpecQueue    - the workflow among pages with many links;              *)
(*   SpecTwice    - two runs of the workflow against stubbed vendors;      *)
(*   SpecScenario - one run against the stubs of the end-to-end scenario;  *)
(*   SpecVerify   - the scenario with a verifier that answers anything;    *)
(*   SpecIter     - the worker iteration in detail: the fallback plan,     *)
(*                  a failing search, a failing PDF extraction.            *)
(***************************************************************************)
EXTENDS Integers, Sequences, FiniteSets, TLC

\* ------------------------------------------------------------------------
\* Bounds of the store model
\* ------------------------------------------------------------------------
NumCallers == 2
MaxCalls == 3

Callers == 1..NumCallers
Urls == {"u1", "u2", "u3"}
StoreUrls == {"u1"}
StoreNames == {"E1"}
ResearchIds == {"rA", "rB"}
Names == {"E1", "E2"}
AttrKeys == {"owner"}
\* None models a missing key / Python None; "" and "Unknown" are the
\* "not yet known" sentinels of the merge rule.
None == "None"
AttrValues == {None, "Unknown", "A", "B"}
NoRow == [exists |-> FALSE, attributes |-> [k \in AttrKeys |-> None]]

VARIABLES
    dbVisited,      \* rows of table visited_urls, as <<url, research_id>>
    cacheVisited,   \* Redis sets visited_urls:<research_id>, as <<url, research_id>>
    dbEntities,     \* table entities: canonical_name -> NoRow or a row
    cacheEntities,  \* Redis set known_entities
    call,           \* per caller: the store operation in progress
    callsMade,      \* store operations started so far, over all callers
    urlReturns,     \* history: <<url, rid>> -> returns of mark_url_visited
    entReturns,     \* history: name -> returns of mark_entity_known
    urlErrors,      \* history: <<url, rid>> whose insert raised a database error
    entErrors,      \* history: names for which mark_entity_known hit a database error
    visitedTrue     \* history: <<url, rid>> for which is_url_visited returned True

storeVars == <<dbVisited, cacheVisited, dbEntities, cacheEntities, call,
               callsMade, urlReturns, entReturns, urlErrors, entErrors, visitedTrue>>

VARIABLES
    web,        \* the vendors' responses: search results per query, page per URL
    pc,         \* the orchestrator's position in DeepResearchOrchestrator.run
    state,      \* the workflow's ResearchState
    persisted,  \* state_dump of the session row (SessionStore)
    task,       \* per worker id: the execute_worker_iteration activity in flight
                \* (round: the 1-based iteration it was dispatched in)
    fetched,    \* history: <<url, worker, round>> handed to the fetcher
    markWon,    \* history: <<url, worker, round>> whose mark_url_visited returned True
    markedRound,\* history: url -> round of its first mark_url_visited call (0: none)
    killed,     \* history: workers the planner's kill_workers was applied to
    rounds,     \* history: number of fan-out rounds dispatched
    hist        \* history: what the last planner and verifier calls returned

orchVars == <<web, pc, state, persisted, task, fetched, markWon, markedRound,
              killed, rounds, hist>>

VARIABLES
    llm,        \* the LLMHandler.acomplete call in progress (tenacity's retry state)
    job,        \* the planning or link-scoring call in progress
    linkCache   \* LinkScorer._cache: url -> cached score (-1: not cached)

llmVars == <<llm, job, linkCache>>

VARIABLES
    dbEvidence, \* table evidence: canonical_name -> its rows, in insertion order
    sessions,   \* table research_sessions: session id -> state_dump (NoDump: no row)
    repo,       \* the last ResearchRepository call: what it returned or raised
    saved,      \* history: <<canonical_name, <<source_url, content>>>> passed to save_entity
    lastSaved   \* history: session id -> the ResearchState last passed to save_session

repoVars == <<dbEvidence, sessions, repo, saved, lastSaved>>

VARIABLES
    run,        \* which run of the orchestrator this is, and what the first one ended with
    ret         \* the summary dictionary run() returned (NoSummary: not yet)

runVars == <<run, ret>>

vars == <<dbVisited, cacheVisited, dbEntities, cacheEntities, call,
          callsMade, urlReturns, entReturns, urlErrors, entErrors, visitedTrue,
          web, pc, state, persisted, task, fetched, markWon, markedRound,
          killed, rounds, hist, llm, job, linkCache,
          dbEvidence, sessions, repo, saved, lastSaved, run, ret>>

callerVars == <<call, callsMade, urlReturns, entReturns, urlErrors, entErrors, visitedTrue>>

UrlKeys == StoreUrls \X ResearchIds
Idle == [op |-> "idle"]
AttrMaps == [AttrKeys -> AttrValues]

\* ------------------------------------------------------------------------
\* DatabaseStateManager
\* ------------------------------------------------------------------------

\* INSERT ... ON CONFLICT (url, research_id) DO NOTHING; rowcount > 0.
DbInsertVisited(rows, key) ==
    [rows |-> rows \cup {key}, is_new |-> key \notin rows]

\* The merge loop of mark_entity_known: an incoming truthy value fills a
\* slot that is missing, empty or "Unknown"; other slots are kept.
Truthy(v) == v # None /\ v # ""

Populated(v) == v # None /\ v # "" /\ v # "Unknown"

MergeAttributes(current, incoming) ==
    [k \in AttrKeys |->
        IF Truthy(incoming[k]) /\ (current[k] = None \/ current[k] \in {"Unknown", ""})
        THEN incoming[k] ELSE current[k]]

\* session.add(EntityModel(canonical_name, attributes)); commit: the primary
\* key canonical_name makes the insert of an existing name raise
\* IntegrityError, which mark_entity_known turns into False.
DbInsertEntityMutantUpsert(rows, name, attributes) ==
    [rows |-> [rows EXCEPT ![name] = [exists |-> TRUE, attributes |-> attributes]],
     is_new |-> TRUE]

DbInsertEntity(rows, name, attributes) ==
    IF rows[name].exists
    THEN [rows |-> rows, is_new |-> FALSE]
    ELSE [rows |-> [rows EXCEPT ![name] = [exists |-> TRUE, attributes |-> attributes]],
          is_new |-> TRUE]

\* ------------------------------------------------------------------------
\* Store specification: callers start operations and run them step by step;
\* every database or cache round trip is one step.
\* ------------------------------------------------------------------------
InitStoreVars ==
    /\ dbVisited = {}
    /\ cacheVisited = {}
    /\ dbEntities = [n \in Names |-> NoRow]
    /\ cacheEntities = {}
    /\ call = [p \in Callers |-> Idle]
    /\ callsMade = 0
    /\ urlReturns = [k \in UrlKeys |-> [t |-> 0, f |-> 0]]
    /\ entReturns = [n \in Names |-> [t |-> 0, f |-> 0]]
    /\ urlErrors = {}
    /\ entErrors = {}
    /\ visitedTrue = {}

\* A caller enters RedisStateManager.mark_url_visited(url, research_id).
StartMarkUrl(p) ==
    /\ call[p].op = "idle"
    /\ callsMade < MaxCalls
    /\ \E u \in StoreUrls, r \in ResearchIds :
          call' = [call EXCEPT ![p] =
                     [op |-> "mark_url", pc |-> "db", key |-> <<u, r>>, is_new |-> FALSE]]
    /\ callsMade' = callsMade + 1
    /\ UNCHANGED <<dbVisited, cacheVisited, dbEntities, cacheEntities,
                   urlReturns, entReturns, urlErrors, entErrors, orchVars, llmVars,
                   repoVars, runVars, visitedTrue>>

\* DatabaseStateManager.mark_url_visited: the atomic insert, committed.
MarkUrlDbInsert(p) ==
    /\ call[p].op = "mark_url" /\ call[p].pc = "db"
    /\ LET res == DbInsertVisited(dbVisited, call[p].key) IN
          /\ dbVisited' = res.rows
          /\ call' = [call EXCEPT ![p].pc = "cache", ![p].is_new = res.is_new]
    /\ UNCHANGED <<cacheVisited, dbEntities, cacheEntities, callsMade,
                   urlReturns, entReturns, urlErrors, entErrors, orchVars, llmVars,
                   repoVars, runVars, visitedTrue>>

\* DatabaseStateManager.mark_url_visited: the except branch
\* (rollback, log, return False).
MarkUrlDbError(p) ==
    /\ call[p].op = "mark_url" /\ call[p].pc = "db"
    /\ call' = [call EXCEPT ![p].pc = "cache", ![p].is_new = FALSE]
    /\ urlErrors' = urlErrors \cup {call[p].key}
    /\ UNCHANGED <<dbVisited, cacheVisited, dbEntities, cacheEntities, callsMade,
                   urlReturns, entReturns, entErrors, orchVars, llmVars,
                   repoVars, runVars, visitedTrue>>

\* RedisStateManager.mark_url_visited: sadd regardless of the database
\* result, then return is_new.
MarkUrlCacheAdd(p) ==
    /\ call[p].op = "mark_url" /\ call[p].pc = "cache"
    /\ cacheVisited' = cacheVisited \cup {call[p].key}
    /\ urlReturns' = [urlReturns EXCEPT ![call[p].key] =
                        IF call[p].is_new THEN [@ EXCEPT !.t = @ + 1]
                                          ELSE [@ EXCEPT !.f = @ + 1]]
    /\ call' = [call EXCEPT ![p] = Idle]
    /\ UNCHANGED <<dbVisited, dbEntities, cacheEntities, callsMade,
                   entReturns, urlErrors, entErrors, orchVars, llmVars,
                   repoVars, runVars, visitedTrue>>

\* A caller enters RedisStateManager.is_url_visited(url, research_id).
StartIsUrlVisited(p) ==
    /\ call[p].op = "idle"
    /\ callsMade < MaxCalls
    /\ \E u \in StoreUrls, r \in ResearchIds :
          call' = [call EXCEPT ![p] = [op |-> "is_url", pc |-> "cache", key |-> <<u, r>>]]
    /\ callsMade' = callsMade + 1
    /\ UNCHANGED <<dbVisited, cacheVisited, dbEntities, cacheEntities,
                   urlReturns, entReturns, urlErrors, entErrors, orchVars, llmVars,
                   repoVars, runVars, visitedTrue>>

\* sismember: a hit returns True at once, a miss goes on to the database.
IsUrlCacheCheck(p) ==
    /\ call[p].op = "is_url" /\ call[p].pc = "cache"
    /\ call' = [call EXCEPT ![p] =
                  IF call[p].key \in cacheVisited THEN Idle
                  ELSE [call[p] EXCEPT !.pc = "db"]]
    /\ visitedTrue' = IF call[p].key \in cacheVisited
                      THEN visitedTrue \cup {call[p].key} ELSE visitedTrue
    /\ UNCHANGED <<dbVisited, cacheVisited, dbEntities, cacheEntities, callsMade,
                   urlReturns, entReturns, urlErrors, entErrors, orchVars, llmVars,
                   repoVars, runVars>>

\* DatabaseStateManager.is_url_visited, then cache population on a hit.
IsUrlDbCheck(p) ==
    /\ call[p].op = "is_url" /\ call[p].pc = "db"
    /\ cacheVisited' = IF call[p].key \in dbVisited
                       THEN cacheVisited \cup {call[p].key} ELSE cacheVisited
    /\ visitedTrue' = IF call[p].key \in dbVisited
                      THEN visitedTrue \cup {call[p].key} ELSE visitedTrue
    /\ call' = [call EXCEPT ![p] = Idle]
    /\ UNCHANGED <<dbVisited, dbEntities, cacheEntities, callsMade,
                   urlReturns, entReturns, urlErrors, entErrors, orchVars, llmVars,
                   repoVars, runVars>>

\* A caller enters RedisStateManager.mark_entity_known(name, attributes).
StartMarkEntity(p) ==
    /\ call[p].op = "idle"
    /\ callsMade < MaxCalls
    /\ \E n \in StoreNames, a \in AttrMaps :
          call' = [call EXCEPT ![p] =
                     [op |-> "mark_entity", pc |-> "select", name |-> n,
                      attributes |-> a, existing |-> NoRow, is_new |-> FALSE]]
    /\ callsMade' = callsMade + 1
    /\ UNCHANGED <<dbVisited, cacheVisited, dbEntities, cacheEntities,
                   urlReturns, entReturns, urlErrors, entErrors, orchVars, llmVars,
                   repoVars, runVars, visitedTrue>>

\* DatabaseStateManager.mark_entity_known, step 1: select the row.
MarkEntitySelect(p) ==
    /\ call[p].op = "mark_entity" /\ call[p].pc = "select"
    /\ call' = [call EXCEPT ![p].pc = "write", ![p].existing = dbEntities[call[p].name]]
    /\ UNCHANGED <<dbVisited, cacheVisited, dbEntities, cacheEntities, callsMade,
                   urlReturns, entReturns, urlErrors, entErrors, orchVars, llmVars,
                   repoVars, runVars, visitedTrue>>

\* Step 2: merge into the row that was read and commit it (return False),
\* or insert a new row (True; IntegrityError when another caller inserted
\* it meanwhile: False).
MarkEntityWrite(p) ==
    /\ call[p].op = "mark_entity" /\ call[p].pc = "write"
    /\ LET c == call[p]
           merged == MergeAttributes(c.existing.attributes, c.attributes) IN
       IF c.existing.exists
       THEN /\ dbEntities' =
                 IF merged # c.existing.attributes
                 THEN [dbEntities EXCEPT ![c.name] = [exists |-> TRUE, attributes |-> merged]]
                 ELSE dbEntities
            /\ call' = [call EXCEPT ![p].pc = "cache", ![p].is_new = FALSE]
       ELSE LET res == DbInsertEntity(dbEntities, c.name, c.attributes) IN
            /\ dbEntities' = res.rows
            /\ call' = [call EXCEPT ![p].pc = "cache", ![p].is_new = res.is_new]
    /\ UNCHANGED <<dbVisited, cacheVisited, cacheEntities, callsMade,
                   urlReturns, entReturns, urlErrors, entErrors, orchVars, llmVars,
                   repoVars, runVars, visitedTrue>>

\* The generic except branch of mark_entity_known (rollback, return False).
MarkEntityDbError(p) ==
    /\ call[p].op = "mark_entity" /\ call[p].pc \in {"select", "write"}
    /\ call' = [call EXCEPT ![p].pc = "cache", ![p].is_new = FALSE]
    /\ entErrors' = entErrors \cup {call[p].name}
    /\ UNCHANGED <<dbVisited, cacheVisited, dbEntities, cacheEntities, callsMade,
                   urlReturns, entReturns, urlErrors, orchVars, llmVars,
                   repoVars, runVars, visitedTrue>>

\* RedisStateManager.mark_entity_known: sadd, then return is_new.
MarkEntityCacheAdd(p) ==
    /\ call[p].op = "mark_entity" /\ call[p].pc = "cache"
    /\ cacheEntities' = cacheEntities \cup {call[p].name}
    /\ entReturns' = [entReturns EXCEPT ![call[p].name] =
                        IF call[p].is_new THEN [@ EXCEPT !.t = @ + 1]
                                          ELSE [@ EXCEPT !.f = @ + 1]]
    /\ call' = [call EXCEPT ![p] = Idle]
    /\ UNCHANGED <<dbVisited, cacheVisited, dbEntities, callsMade,
                   urlReturns, urlErrors, entErrors, orchVars, llmVars,
                   repoVars, runVars, visitedTrue>>


\* ========================================================================
\* Orchestrator workflow and worker iterations
\* ========================================================================

\* Bounds of the workflow model
MAX_ITERATIONS == 3
PageBudget == 2
MaxDecisions == 1
\* Program constant (LinkFilter.MAX_QUEUE_SIZE).  The page budgets of the
\* model stay below chunk_size, so an iteration processes a single chunk.
MAX_QUEUE_SIZE == 100

SessionId == "rA"
WorkerIds == {"A", "B"}
WorkerOrder == <<"A", "B">>
GapWorkerIds == {"gap-fill-E1", "gap-fill-E2"}
TaskIds == WorkerIds \cup GapWorkerIds
GapWorkerId(name) == IF name = "E1" THEN "gap-fill-E1" ELSE "gap-fill-E2"
Queries == {"q0", "q1"}
ActiveStatuses == {"ACTIVE", "PRODUCTIVE", "DECLINING"}
VerifierStatuses == {"VERIFIED", "UNCERTAIN", "REJECTED"}

\* ---------------- helpers ----------------
Min(a, b) == IF a < b THEN a ELSE b
Max(a, b) == IF a > b THEN a ELSE b
Range(s) == {s[i] : i \in 1..Len(s)}

\* [x for x in s if x not in set]
SelectNotIn(s, set) == SelectSeq(s, LAMBDA x : x \notin set)

RECURSIVE Flatten(_)
Flatten(ss) == IF ss = <<>> THEN <<>> ELSE Head(ss) \o Flatten(Tail(ss))

Prefix(s, n) == SubSeq(s, 1, Min(Len(s), n))

\* ---------------- data ----------------
NoWorker == [exists |-> FALSE, status |-> "ACTIVE", queries |-> <<>>,
             pages_fetched |-> 0, entities_found |-> 0, new_entities |-> 0,
             personal_queue |-> <<>>, explored_domains |-> {}]

\* WorkerState(id=..., research_id=state.id, strategy=..., queries=..., status="ACTIVE")
NewWorkerMutantNoQueries(queries) == [NoWorker EXCEPT !.exists = TRUE]

NewWorker(queries) == [NoWorker EXCEPT !.exists = TRUE, !.queries = queries]

NoEntity == [exists |-> FALSE, aliases |-> {}, evidence |-> <<>>,
             mention_count |-> 0, verification_status |-> "UNVERIFIED"]

EmptyPlan == [initial_workers |-> {}, workers_to_kill |-> {}, updated_queries |-> {}]

\* ResearchState(topic=topic, status="running")
InitialState ==
    [status |-> "running", iteration_count |-> 0,
     workers |-> [w \in WorkerIds |-> NoWorker],
     known_entities |-> [n \in Names |-> NoEntity],
     visited_urls |-> {}, plan |-> EmptyPlan]

NoSession == [status |-> "none"]

\* History of the latest update_plan and verify_entity calls: the worker
\* ids of spawn_workers, those of them that were not in state.workers, how
\* update_plan_adaptive ended, the entities the verifier returned as
\* UNCERTAIN with "owner" among missing_fields.
NoHist == [spawned |-> {}, spawnedNew |-> {}, planner |-> "none", missingOwner |-> {}]

NoResult == [worker_id |-> "none", pages_fetched |-> 0, entities_found |-> 0,
             new_entities |-> 0, status |-> "DECLINING", extracted_data |-> <<>>,
             discovered_links |-> <<>>, consumed_urls |-> <<>>]

NoTask == [pc |-> "idle", round |-> 0, worker |-> NoWorker, url_queue |-> <<>>,
           idx |-> 0, valid_urls |-> <<>>, snapshot |-> NoSession, result |-> NoResult]

Snippet(url, name) == [source_url |-> url, content |-> name]

\* A page as the fetcher sees it.  kind "crawl": an HTML page whose asset
\* goes through Crawl4AIExtractor._process_single_result; kind "pdf": a PDF
\* routed to EntityExtractor.extract_entities (one drug without aliases);
\* kind "pdfAlias": the same with one alias; kind "empty": nothing extracted.
PageChoices(u) ==
    IF u = "u1" THEN {[kind |-> k, name |-> "E1", links |-> <<"u3">>] :
                         k \in {"pdfAlias", "crawl"}}
    ELSE IF u = "u2" THEN {[kind |-> "pdf", name |-> "E1", links |-> <<>>],
                           [kind |-> "empty", name |-> "E1", links |-> <<>>]}
    ELSE {[kind |-> "pdf", name |-> "E2", links |-> <<>>]}

SearchChoices(q) ==
    IF q = "q0" THEN {<<"u1">>, <<"u1", "u2">>} ELSE {<<"u2">>}

SearchFns ==
    {[q \in Queries |-> IF q = "q0" THEN a ELSE b] :
        a \in SearchChoices("q0"), b \in SearchChoices("q1")}

PageFns ==
    {[u \in Urls |-> IF u = "u1" THEN a ELSE IF u = "u2" THEN b ELSE c] :
        a \in PageChoices("u1"), b \in PageChoices("u2"), c \in PageChoices("u3")}

\* urlparse(url).netloc of the URLs u1, u2 (one site) and u3 (another).
UrlNetloc == [u \in Urls |-> IF u = "u3" THEN "b.org" ELSE "a.org"]

Webs == {[search |-> s, pages |-> p, netloc |-> UrlNetloc] : s \in SearchFns, p \in PageFns}

PageAttributes == [k \in AttrKeys |-> "A"]

\* Crawl4AIExtractor._process_single_result: one dict per asset, with the
\* keys canonical, aliases, attributes, evidence (no key "alias").
CrawlItems(url, page) ==
    <<[canonical |-> page.name, shape |-> "crawl", alias |-> None,
       attributes |-> PageAttributes, evidence |-> <<Snippet(url, page.name)>>]>>

\* EntityExtractor.extract_entities: one dict per name in
\* [canonical_name] + aliases, all carrying the same snippet.
LlamaItems(url, page, aliases) ==
    LET all_names == <<page.name>> \o aliases IN
    [i \in 1..Len(all_names) |->
        [canonical |-> page.name, shape |-> "llama", alias |-> all_names[i],
         attributes |-> PageAttributes, evidence |-> <<Snippet(url, page.name)>>]]

\* The "entities" of one row of extract_batch, after the PDF fallback.
PageItems(url, page) ==
    IF page.kind = "crawl" THEN CrawlItems(url, page)
    ELSE IF page.kind = "pdf" THEN LlamaItems(url, page, <<>>)
    ELSE IF page.kind = "pdfAlias" THEN LlamaItems(url, page, <<"alias1">>)
    ELSE <<>>

\* RedisStateManager.is_url_visited (cache, then database).
IsUrlVisitedMutantNever(cache, rows, key) == FALSE

IsUrlVisited(cache, rows, key) == key \in cache \/ key \in rows

\* LinkFilter.should_reject_fast: none of the modelled URLs is on a blocklist.
ShouldRejectFast(url) == FALSE

\* analyze_gaps: the targeted queries for the missing P0 fields.
analyze_gaps(canonical_name, missing_fields) ==
    (IF "owner" \in missing_fields
        THEN <<"\"" \o canonical_name \o "\" developer owner company",
               "who developed \"" \o canonical_name \o "\"">>
        ELSE <<>>)
    \o (IF "product_stage" \in missing_fields \/ "clinical_phase" \in missing_fields
        THEN <<"\"" \o canonical_name \o "\" clinical trial stage phase">> ELSE <<>>)
    \o (IF "indication" \in missing_fields
        THEN <<"\"" \o canonical_name \o "\" therapeutic indication disease">> ELSE <<>>)

\* ---------------- aggregation (workflows.py, fan-in) ----------------

\* The entity merge loop over extracted_data.  item["alias"] raises KeyError
\* for an item without that key; the result carries the state reached and
\* whether the loop raised.
RECURSIVE MergeItems(_, _)
RECURSIVE MergeItemsMutantFirstEvidence(_, _)
MergeItemsMutantForget(known, items) ==
    IF items = <<>> THEN [known |-> known, raised |-> FALSE]
    ELSE [known |-> [n \in Names |->
                       IF n = Head(items).canonical
                       THEN [NoEntity EXCEPT !.exists = TRUE, !.mention_count = 1]
                       ELSE NoEntity],
          raised |-> FALSE]

MergeItemsMutantFirstEvidence(known, items) ==
    IF items = <<>> THEN [known |-> known, raised |-> FALSE]
    ELSE LET item == Head(items)
             c == item.canonical IN
         IF ~known[c].exists
         THEN MergeItemsMutantFirstEvidence(
                     [known EXCEPT ![c] =
                        [exists |-> TRUE, aliases |-> {item.alias},
                         evidence |-> item.evidence, mention_count |-> 1,
                         verification_status |-> "UNVERIFIED"]],
                     Tail(items))
         ELSE MergeItemsMutantFirstEvidence(
                     [known EXCEPT ![c].mention_count = @ + 1,
                                   ![c].aliases = @ \cup {item.alias}],
                     Tail(items))

MergeItems(known, items) ==
    IF items = <<>> THEN [known |-> known, raised |-> FALSE]
    ELSE LET item == Head(items)
             c == item.canonical IN
         IF ~known[c].exists
         THEN IF item.shape = "crawl"
              THEN [known |-> known, raised |-> TRUE]
              ELSE MergeItems(
                     [known EXCEPT ![c] =
                        [exists |-> TRUE, aliases |-> {item.alias},
                         evidence |-> item.evidence, mention_count |-> 1,
                         verification_status |-> "UNVERIFIED"]],
                     Tail(items))
         ELSE LET bumped == [known EXCEPT ![c].mention_count = @ + 1] IN
              IF item.shape = "crawl"
              THEN [known |-> bumped, raised |-> TRUE]
              ELSE MergeItems(
                     [bumped EXCEPT ![c].aliases = @ \cup {item.alias},
                                    ![c].evidence = @ \o item.evidence],
                     Tail(items))

\* "Add Discovered Links": a link not in state.visited_urls is added to the
\* shadow set and appended to the worker's personal_queue.
AddDiscoveredLinksMutantNoVisitedTest(visited, queue, links) ==
    [visited_urls |-> visited \cup Range(links), personal_queue |-> queue \o links]

AddDiscoveredLinks(visited, queue, links) ==
    LET firsts == SelectSeq([i \in 1..Len(links) |-> i],
                            LAMBDA i : /\ links[i] \notin visited
                                       /\ \A j \in 1..(i - 1) : links[j] # links[i])
        added == [k \in 1..Len(firsts) |-> links[firsts[k]]]
    IN  [visited_urls |-> visited \cup Range(added), personal_queue |-> queue \o added]

\* The body of "for res in results" for one WorkerResult.
AggregateResult(st, res) ==
    LET w == res.worker_id
        ws == st.workers[w]
        q1 == SelectNotIn(ws.personal_queue, Range(res.consumed_urls))
        added == AddDiscoveredLinks(st.visited_urls, q1, res.discovered_links)
        merged == MergeItems(st.known_entities, res.extracted_data)
        ws2 == [ws EXCEPT !.pages_fetched = @ + res.pages_fetched,
                          !.entities_found = @ + res.entities_found,
                          !.new_entities = @ + res.new_entities,
                          !.status = res.status,
                          !.personal_queue = added.personal_queue]
    IN  IF ~ws.exists THEN [state |-> st, raised |-> FALSE]
        ELSE [state |-> [st EXCEPT !.workers[w] = ws2,
                                   !.visited_urls = added.visited_urls,
                                   !.known_entities = merged.known],
              raised |-> merged.raised]

RECURSIVE AggregateAll(_, _)
AggregateAll(st, results) ==
    IF results = <<>> THEN [state |-> st, raised |-> FALSE]
    ELSE LET one == AggregateResult(st, Head(results)) IN
         IF one.raised THEN one ELSE AggregateAll(one.state, Tail(results))


\* ---------------- execute_worker_iteration (activities.py) ----------------

SearchFor(q) == IF q \in Queries THEN web.search[q] ELSE <<>>

\* urlparse(url).netloc
Netloc(u) == web.netloc[u]

\* novel_domain_links + same_domain_links: the personal queue with the
\* links of domains not in explored_domains first.
PriorityLinks(ws) ==
    SelectSeq(ws.personal_queue, LAMBDA l : Netloc(l) \notin ws.explored_domains)
    \o SelectSeq(ws.personal_queue, LAMBDA l : Netloc(l) \in ws.explored_domains)

\* "status": "PRODUCTIVE" if novelty_rate > 0.1 else "DECLINING", with
\* novelty_rate = globally_new_count / max(pages_fetched, 1).
ResultStatus(new_count, pages) ==
    IF 10 * new_count > Max(pages, 1) THEN "PRODUCTIVE" ELSE "DECLINING"

\* DatabaseStateManager.mark_entity_known run to completion on the table.
MarkEntityKnown(rows, name, attributes) ==
    IF rows[name].exists
    THEN [rows |-> [rows EXCEPT ![name].attributes =
                        MergeAttributes(rows[name].attributes, attributes)],
          is_new |-> FALSE]
    ELSE DbInsertEntity(rows, name, attributes)

RECURSIVE MarkEntities(_, _)
MarkEntities(rows, items) ==
    IF items = <<>> THEN [rows |-> rows, new_count |-> 0]
    ELSE LET one == MarkEntityKnown(rows, Head(items).canonical, Head(items).attributes)
             rest == MarkEntities(one.rows, Tail(items)) IN
         [rows |-> rest.rows, new_count |-> rest.new_count + (IF one.is_new THEN 1 ELSE 0)]

\* Link handling for one fetched page: drop visited and rejected links, then
\* accept up to MAX_QUEUE_SIZE - current_queue_size of them.  Above half of
\* MAX_QUEUE_SIZE the links are sorted by their score first; the scorer of
\* the model gives every link the same score and the sort is stable, so
\* both branches accept a prefix.
AcceptedLinksMutantNoTruncate(raw_links, cache, rows, current_queue_size) ==
    SelectNotIn(raw_links,
        {l \in Range(raw_links) :
            IsUrlVisited(cache, rows, <<l, SessionId>>) \/ ShouldRejectFast(l)})

AcceptedLinks(raw_links, cache, rows, current_queue_size) ==
    LET filtered == SelectNotIn(raw_links,
                       {l \in Range(raw_links) :
                           IsUrlVisited(cache, rows, <<l, SessionId>>) \/ ShouldRejectFast(l)})
        available_space == Max(0, MAX_QUEUE_SIZE - current_queue_size)
    IN  Prefix(filtered, available_space)

\* The "for extraction_res in batch_results" loop over one chunk.
RECURSIVE ProcessResults(_, _, _)
ProcessResults(urls, acc, queue_len) ==
    IF urls = <<>> THEN acc
    ELSE LET u == Head(urls)
             page == web.pages[u]
             items == PageItems(u, page)
             marks == MarkEntities(acc.rows, items)
             links == AcceptedLinks(page.links, acc.cache, dbVisited,
                                    queue_len + Len(acc.discovered_links))
             hits == {<<l, SessionId>> : l \in {x \in Range(page.links) :
                                                 <<x, SessionId>> \in dbVisited}}
         IN  ProcessResults(Tail(urls),
                [pages_fetched |-> acc.pages_fetched + 1,
                 new_entities_found |-> acc.new_entities_found \o items,
                 globally_new_count |-> acc.globally_new_count + marks.new_count,
                 discovered_links |-> acc.discovered_links \o links,
                 rows |-> marks.rows,
                 cache |-> acc.cache \cup hits],
                queue_len)

WorkerResult(w, t, acc) ==
    [worker_id |-> w,
     pages_fetched |-> acc.pages_fetched,
     entities_found |-> Len(acc.new_entities_found),
     new_entities |-> acc.globally_new_count,
     status |-> ResultStatus(acc.globally_new_count, acc.pages_fetched),
     extracted_data |-> acc.new_entities_found,
     discovered_links |-> acc.discovered_links,
     consumed_urls |-> t.url_queue]

EmptyAcc == [pages_fetched |-> 0, new_entities_found |-> <<>>, globally_new_count |-> 0,
             discovered_links |-> <<>>, rows |-> dbEntities, cache |-> cacheVisited]

\* Where the iteration stands once the visit-gating loop has looked at
\* url_queue[idx]: more URLs to gate, URLs to mark, or nothing to fetch.
AfterGate(w, t) ==
    IF t.idx <= Len(t.url_queue) /\ Len(t.valid_urls) < PageBudget
    THEN t
    ELSE IF t.valid_urls = <<>>
         THEN [t EXCEPT !.pc = "done", !.result = WorkerResult(w, t, EmptyAcc)]
         ELSE [t EXCEPT !.pc = "mark", !.idx = 1]

\* 1. search, 2. fill url_queue from personal_queue, the links of domains
\* not in explored_domains first, up to the page budget (the
\* explored_domains of the activity's input is what the workflow holds:
\* the result never returns the set), remove the queued URLs.  The
\* dashboard write after the search saves the session back with only the
\* query history changed, which is no field of the model.
WSearch(w) ==
    /\ task[w].pc = "search"
    /\ LET t == task[w]
           ws == t.worker
           search_results == Flatten([i \in 1..Len(ws.queries) |-> SearchFor(ws.queries[i])])
           priority_links == PriorityLinks(ws)
           url_queue == search_results \o
                        Prefix(priority_links, Max(0, PageBudget - Len(search_results)))
           t2 == [t EXCEPT !.pc = "gate", !.url_queue = url_queue, !.idx = 1,
                           !.valid_urls = <<>>,
                           !.worker.personal_queue =
                               SelectNotIn(ws.personal_queue, Range(url_queue))]
       IN  task' = [task EXCEPT ![w] = AfterGate(w, t2)]
    /\ UNCHANGED <<dbVisited, cacheVisited, dbEntities, cacheEntities, callerVars,
                   web, pc, state, persisted, fetched, markWon, markedRound,
                   killed, rounds, hist, llmVars, repoVars, runVars>>

\* 3. one round of the valid_urls loop: is_url_visited on url_queue[idx].
WGate(w) ==
    /\ task[w].pc = "gate"
    /\ LET t == task[w]
           key == <<t.url_queue[t.idx], SessionId>>
           is_visited == IsUrlVisited(cacheVisited, dbVisited, key)
           t2 == [t EXCEPT !.idx = @ + 1,
                           !.valid_urls = IF is_visited THEN @ ELSE Append(@, key[1])]
       IN  /\ task' = [task EXCEPT ![w] = AfterGate(w, t2)]
           /\ cacheVisited' = IF key \in dbVisited THEN cacheVisited \cup {key}
                              ELSE cacheVisited
    /\ UNCHANGED <<dbVisited, dbEntities, cacheEntities, callerVars,
                   web, pc, state, persisted, fetched, markWon, markedRound,
                   killed, rounds, hist, llmVars, repoVars, runVars>>

AfterMark(t) ==
    IF t.idx <= Len(t.valid_urls) THEN t ELSE [t EXCEPT !.pc = "fetch"]

\* "Mark all as visited immediately": mark_url_visited on chunk[idx]; the
\* returned flag is not looked at.
WMarkUrl(w) ==
    /\ task[w].pc = "mark"
    /\ LET t == task[w]
           u == t.valid_urls[t.idx]
           key == <<u, SessionId>>
           res == DbInsertVisited(dbVisited, key) IN
          /\ dbVisited' = res.rows
          /\ cacheVisited' = cacheVisited \cup {key}
          /\ markWon' = IF res.is_new THEN markWon \cup {<<u, w, t.round>>} ELSE markWon
          /\ markedRound' = IF markedRound[u] = 0
                            THEN [markedRound EXCEPT ![u] = t.round]
                            ELSE markedRound
          /\ task' = [task EXCEPT ![w] =
                        AfterMark([t EXCEPT !.idx = @ + 1,
                                            !.worker.explored_domains = @ \cup {Netloc(u)}])]
    /\ UNCHANGED <<dbEntities, cacheEntities, callerVars,
                   web, pc, state, persisted, fetched, killed, rounds, hist, llmVars, repoVars, runVars>>

\* The same call when the insert raises: no row, the cache is written anyway.
WMarkUrlDbError(w) ==
    /\ task[w].pc = "mark"
    /\ LET t == task[w]
           u == t.valid_urls[t.idx]
           key == <<u, SessionId>> IN
          /\ cacheVisited' = cacheVisited \cup {key}
          /\ markedRound' = IF markedRound[u] = 0
                            THEN [markedRound EXCEPT ![u] = t.round]
                            ELSE markedRound
          /\ task' = [task EXCEPT ![w] =
                        AfterMark([t EXCEPT !.idx = @ + 1,
                                            !.worker.explored_domains = @ \cup {Netloc(u)}])]
    /\ UNCHANGED <<dbVisited, dbEntities, cacheEntities, callerVars,
                   web, pc, state, persisted, fetched, markWon, killed, rounds, hist, llmVars, repoVars, runVars>>

\* extract_batch on the chunk and the processing of its rows: entity
\* accounting through mark_entity_known, link handling, the result; then
\* _persist_intermediate_metrics reads the session (repo.get_session).
WFetch(w) ==
    /\ task[w].pc = "fetch"
    /\ LET t == task[w]
           acc == ProcessResults(t.valid_urls, EmptyAcc, Len(t.worker.personal_queue)) IN
          /\ fetched' = fetched \cup {<<t.valid_urls[i], w, t.round>> :
                                         i \in 1..Len(t.valid_urls)}
          /\ dbEntities' = acc.rows
          /\ cacheEntities' = cacheEntities \cup
                 {acc.new_entities_found[i].canonical : i \in 1..Len(acc.new_entities_found)}
          /\ cacheVisited' = acc.cache
          /\ task' = [task EXCEPT ![w] =
                        IF persisted = NoSession \/ w \notin WorkerIds
                           \/ ~persisted.workers[w].exists
                        THEN [t EXCEPT !.pc = "done", !.result = WorkerResult(w, t, acc)]
                        ELSE [t EXCEPT !.pc = "persist_write", !.snapshot = persisted,
                                       !.result = WorkerResult(w, t, acc)]]
    /\ UNCHANGED <<dbVisited, callerVars, web, pc, state, persisted,
                   markWon, markedRound, killed, rounds, hist, llmVars, repoVars, runVars>>

\* _persist_intermediate_metrics: set the worker's counters in the state
\* that was read and save_session the whole dump.
WPersistWrite(w) ==
    /\ task[w].pc = "persist_write"
    /\ LET t == task[w] IN
          /\ persisted' = [t.snapshot EXCEPT
                             !.workers[w].pages_fetched =
                                 t.worker.pages_fetched + t.result.pages_fetched,
                             !.workers[w].entities_found =
                                 t.worker.entities_found + t.result.entities_found]
          /\ task' = [task EXCEPT ![w] = [t EXCEPT !.pc = "done", !.snapshot = NoSession]]
    /\ UNCHANGED <<dbVisited, cacheVisited, dbEntities, cacheEntities, callerVars,
                   web, pc, state, fetched, markWon, markedRound, killed, rounds, hist, llmVars, repoVars, runVars>>


\* The activity ends in failure: the search raised on every attempt the
\* retry policy allowed (the failed attempts leave nothing behind).
WFail(w) ==
    /\ task[w].pc = "search"
    /\ task' = [task EXCEPT ![w].pc = "failed"]
    /\ UNCHANGED <<dbVisited, cacheVisited, dbEntities, cacheEntities, callerVars,
                   web, pc, state, persisted, fetched, markWon, markedRound,
                   killed, rounds, hist, llmVars, repoVars, runVars>>

\* ---------------- DeepResearchOrchestrator.run (workflows.py) ----------------

ActiveWorkersMutantAll(st) == {w \in WorkerIds : st.workers[w].exists}

ActiveWorkers(st) ==
    {w \in WorkerIds : st.workers[w].exists /\ st.workers[w].status \in ActiveStatuses}

\* The fan-out: one execute_worker_iteration per active worker, each on a
\* copy of its WorkerState.
Dispatch(st) ==
    [w \in TaskIds |->
        IF w \in ActiveWorkers(st)
        THEN [NoTask EXCEPT !.pc = "search", !.round = st.iteration_count + 1,
                            !.worker = st.workers[w]]
        ELSE NoTask]

\* 1. Initialize State: save_state(ResearchState(topic, status="running")).
Start ==
    /\ pc = "init"
    /\ persisted' = state
    /\ pc' = "planning"
    /\ UNCHANGED <<storeVars, web, state, task, fetched, markWon, markedRound,
                   killed, rounds, hist, llmVars, repoVars, runVars>>

\* 2. Initial Planning: the plan's initial_workers become ACTIVE workers.
InitialPlan ==
    /\ pc = "planning"
    /\ \E ids \in {{}, {"A"}, {"A", "B"}} :
          state' = [state EXCEPT
                      !.plan.initial_workers =
                          {[worker_id |-> id, example_queries |-> <<"q0">>] : id \in ids},
                      !.workers = [w \in WorkerIds |->
                                     IF w \in ids THEN NewWorker(<<"q0">>) ELSE NoWorker]]
    /\ pc' = "save"
    /\ UNCHANGED <<storeVars, web, persisted, task, fetched, markWon, markedRound,
                   killed, rounds, hist, llmVars, repoVars, runVars>>

\* save_state at the end of planning or of an iteration, then the loop head:
\* the while test, the active-worker selection and the fan-out, or the exit
\* to the verification phase.
SaveStateMutantNoSave(st, old) == old

SaveState(st, old) == st

SaveAndLoop ==
    /\ pc = "save"
    /\ persisted' = SaveState(state, persisted)
    /\ IF state.iteration_count < MAX_ITERATIONS /\ ActiveWorkers(state) # {}
       THEN /\ task' = Dispatch(state)
            /\ rounds' = rounds + 1
            /\ pc' = "gather"
            /\ state' = state
       ELSE /\ state' = [state EXCEPT !.status = "verification_pending"]
            /\ pc' = "vsave"
            /\ UNCHANGED <<task, rounds>>
    /\ hist' = [hist EXCEPT !.planner = "none"]
    /\ UNCHANGED <<storeVars, web, fetched, markWon, markedRound, killed, llmVars, repoVars, runVars>>

\* Results of asyncio.gather, in the order of active_workers.
RECURSIVE ResultsInOrder(_)
ResultsInOrder(order) ==
    IF order = <<>> THEN <<>>
    ELSE (IF task[Head(order)].pc = "done" THEN <<task[Head(order)].result>> ELSE <<>>)
         \o ResultsInOrder(Tail(order))

RECURSIVE SumField(_, _)
SumField(results, f) ==
    IF results = <<>> THEN 0 ELSE Head(results)[f] + SumField(Tail(results), f)

\* global_novelty < 0.05 and state.iteration_count > 1, with
\* global_novelty = total_new_entities / max(total_pages, 1).
SaturatedMutantNever(total_new_entities, total_pages, iteration_count) == FALSE

SaturatedMutantFirstIteration(total_new_entities, total_pages, iteration_count) ==
    20 * total_new_entities < Max(total_pages, 1)

Saturated(total_new_entities, total_pages, iteration_count) ==
    20 * total_new_entities < Max(total_pages, 1) /\ iteration_count > 1

\* Fan-in once every worker of the round has returned: aggregation,
\* iteration_count += 1, the stopping criteria.
Gather ==
    /\ pc = "gather"
    /\ \A w \in WorkerIds : task[w].pc \in {"idle", "done"}
    /\ LET results == ResultsInOrder(WorkerOrder)
           agg == AggregateAll(state, results)
           st2 == [agg.state EXCEPT !.iteration_count = @ + 1] IN
       IF agg.raised
       THEN /\ state' = agg.state
            /\ pc' = "crashed"
       ELSE IF Saturated(SumField(results, "new_entities"),
                         SumField(results, "pages_fetched"), st2.iteration_count)
       THEN /\ state' = [st2 EXCEPT !.status = "verification_pending"]
            /\ pc' = "vsave"
       ELSE /\ state' = st2
            /\ pc' = "plan"
    /\ task' = [w \in TaskIds |-> NoTask]
    /\ hist' = NoHist
    /\ UNCHANGED <<storeVars, web, persisted, fetched, markWon, markedRound,
                   killed, rounds, llmVars, repoVars, runVars>>

\* asyncio.gather(*worker_tasks) raises the ActivityError of a failed
\* worker iteration; run() has no handler, so the workflow execution fails
\* there.  The other activities of the round are not interrupted.
GatherFailed ==
    /\ pc = "gather"
    /\ \E w \in WorkerIds : task[w].pc = "failed"
    /\ pc' = "failed"
    /\ UNCHANGED <<storeVars, web, state, persisted, task, fetched, markWon,
                   markedRound, killed, rounds, hist, llmVars, repoVars, runVars>>

\* "Handle worker kills", "Handle worker spawns", "Update queries for
\* existing workers", applied to the plan the update_plan activity returned.
ApplyPlanMutantRespawn(st, plan) ==
    LET afterKill == [w \in WorkerIds |->
                        IF w \in plan.workers_to_kill /\ st.workers[w].exists
                        THEN [st.workers[w] EXCEPT !.status = "DEAD_END"]
                        ELSE st.workers[w]]
        afterSpawn == [w \in WorkerIds |->
                        IF \E cfg \in plan.initial_workers :
                              cfg.worker_id = w /\ cfg.example_queries = <<"q1">>
                        THEN NewWorker(<<"q1">>)
                        ELSE afterKill[w]]
        afterQueries == [w \in WorkerIds |->
                        IF w \in plan.updated_queries /\ afterSpawn[w].exists
                        THEN [afterSpawn[w] EXCEPT !.queries = <<"q1">>]
                        ELSE afterSpawn[w]]
    IN  [st EXCEPT !.plan = plan, !.workers = afterQueries]

ApplyPlan(st, plan) ==
    LET afterKill == [w \in WorkerIds |->
                        IF w \in plan.workers_to_kill /\ st.workers[w].exists
                        THEN [st.workers[w] EXCEPT !.status = "DEAD_END"]
                        ELSE st.workers[w]]
        afterSpawn == [w \in WorkerIds |->
                        IF ~afterKill[w].exists
                           /\ \E cfg \in plan.initial_workers : cfg.worker_id = w
                        THEN NewWorker((CHOOSE cfg \in plan.initial_workers :
                                            cfg.worker_id = w).example_queries)
                        ELSE afterKill[w]]
        afterQueries == [w \in WorkerIds |->
                        IF w \in plan.updated_queries /\ afterSpawn[w].exists
                        THEN [afterSpawn[w] EXCEPT !.queries = <<"q1">>]
                        ELSE afterSpawn[w]]
    IN  [st EXCEPT !.plan = plan, !.workers = afterQueries]

SmallSets(S) == {{}} \cup {{x} : x \in S}

\* update_plan returned the adaptive decisions of the planner.
UpdatePlan ==
    /\ pc = "plan"
    /\ \E spawn \in SmallSets(WorkerIds), kill \in SmallSets(WorkerIds),
          upd \in SmallSets(WorkerIds) :
          /\ Cardinality(spawn) + Cardinality(kill) + Cardinality(upd) <= MaxDecisions
          /\ LET plan == [initial_workers |-> state.plan.initial_workers \cup
                           {[worker_id |-> id, example_queries |-> <<"q1">>] : id \in spawn},
                       workers_to_kill |-> kill,
                       updated_queries |-> upd] IN
               /\ state' = ApplyPlan(state, plan)
               /\ killed' = killed \cup {w \in kill : state.workers[w].exists}
               /\ hist' = [hist EXCEPT !.planner = "ok", !.spawned = spawn,
                              !.spawnedNew = {w \in spawn : ~state.workers[w].exists}]
    /\ pc' = "save"
    /\ UNCHANGED <<storeVars, web, persisted, task, fetched, markWon, markedRound,
                   rounds, llmVars, repoVars, runVars>>

\* update_plan_adaptive failed before it touched the plan (the LLM call
\* raised, json.loads raised): the except branch returns state.plan, which
\* the workflow applies again.
UpdatePlanFailed ==
    /\ pc = "plan"
    /\ state' = ApplyPlan(state, state.plan)
    /\ killed' = killed \cup {w \in state.plan.workers_to_kill : state.workers[w].exists}
    /\ hist' = [hist EXCEPT !.planner = "failed", !.spawned = {}, !.spawnedNew = {}]
    /\ pc' = "save"
    /\ UNCHANGED <<storeVars, web, persisted, task, fetched, markWon, markedRound,
                   rounds, llmVars, repoVars, runVars>>

\* update_plan_adaptive failed after the decisions were read (a gap without
\* "description" or "priority", a response without "decisions" at the
\* final log line): updated_plan is state.plan itself, so the except
\* branch returns the plan with spawn_workers appended and kill_workers and
\* update_queries assigned.
UpdatePlanFailedLate ==
    /\ pc = "plan"
    /\ \E spawn \in SmallSets(WorkerIds), kill \in SmallSets(WorkerIds),
          upd \in SmallSets(WorkerIds) :
          /\ Cardinality(spawn) + Cardinality(kill) + Cardinality(upd) <= MaxDecisions
          /\ LET plan == [initial_workers |-> state.plan.initial_workers \cup
                           {[worker_id |-> id, example_queries |-> <<"q1">>] : id \in spawn},
                       workers_to_kill |-> kill,
                       updated_queries |-> upd] IN
               /\ state' = ApplyPlan(state, plan)
               /\ killed' = killed \cup {w \in kill : state.workers[w].exists}
               /\ hist' = [hist EXCEPT !.planner = "failed", !.spawned = spawn,
                              !.spawnedNew = {w \in spawn : ~state.workers[w].exists}]
    /\ pc' = "save"
    /\ UNCHANGED <<storeVars, web, persisted, task, fetched, markWon, markedRound,
                   rounds, llmVars, repoVars, runVars>>

\* 4. Verification Phase: save_state with status verification_pending.
SaveVerificationPending ==
    /\ pc = "vsave"
    /\ persisted' = state
    /\ pc' = "verify"
    /\ hist' = NoHist
    /\ UNCHANGED <<storeVars, web, state, task, fetched, markWon, markedRound,
                   killed, rounds, llmVars, repoVars, runVars>>

\* verify_entity over all known entities (the verifier's status and
\* missing_fields are the LLM's); for the UNCERTAIN ones analyze_gaps is
\* called with {"status": "UNCERTAIN", "missing_fields": []} and a gap-fill
\* worker is dispatched when it returns queries.
Verify ==
    /\ pc = "verify"
    /\ \E verdict \in [Names -> VerifierStatuses], missing \in SUBSET Names :
          LET known == [n \in Names |->
                          IF state.known_entities[n].exists
                          THEN [state.known_entities[n] EXCEPT
                                   !.verification_status = verdict[n]]
                          ELSE state.known_entities[n]]
              uncertain == {n \in Names : known[n].exists
                                          /\ known[n].verification_status = "UNCERTAIN"}
              gaps == {n \in uncertain : analyze_gaps(n, {}) # <<>>}
          IN  /\ \A n \in Names : ~state.known_entities[n].exists => verdict[n] = "VERIFIED"
              /\ missing \subseteq uncertain
              /\ state' = [state EXCEPT !.known_entities = known]
              /\ task' = [w \in TaskIds |->
                            IF \E n \in gaps : w = GapWorkerId(n)
                            THEN [NoTask EXCEPT !.pc = "search",
                                    !.round = state.iteration_count + 1,
                                    !.worker = NewWorker(analyze_gaps(
                                        CHOOSE n \in gaps : w = GapWorkerId(n), {}))]
                            ELSE NoTask]
              /\ rounds' = IF gaps # {} THEN rounds + 1 ELSE rounds
              /\ hist' = [hist EXCEPT !.missingOwner = missing]
    /\ pc' = "final"
    /\ UNCHANGED <<storeVars, web, persisted, fetched, markWon, markedRound, killed, llmVars, repoVars, runVars>>

\* The verification phase when a result does not carry the name of the
\* entity it was asked about: canonical_name of VerificationResult is
\* filled in by the LLM, and the workflow looks the result up by it.  echo
\* is the name each result carries; a result whose name is no key of
\* known_entities is dropped.
VerifyMisnamed ==
    /\ pc = "verify"
    /\ \E verdict \in [Names -> VerifierStatuses],
          echo \in [Names -> Names \cup {"other"}] :
          LET asked == {n \in Names : state.known_entities[n].exists}
              known == [m \in Names |->
                          IF m \in asked /\ \E n \in asked : echo[n] = m
                          THEN [state.known_entities[m] EXCEPT
                                   !.verification_status =
                                       verdict[CHOOSE n \in asked : echo[n] = m]]
                          ELSE state.known_entities[m]]
              uncertain == {n \in Names : known[n].exists
                                          /\ known[n].verification_status = "UNCERTAIN"}
              gaps == {n \in uncertain : analyze_gaps(n, {}) # <<>>}
          IN  /\ \A n \in Names \ asked : verdict[n] = "VERIFIED" /\ echo[n] = n
              /\ \E n \in asked : echo[n] # n
              /\ \A n1, n2 \in asked : echo[n1] = echo[n2] => n1 = n2
              /\ state' = [state EXCEPT !.known_entities = known]
              /\ task' = [w \in TaskIds |->
                            IF \E n \in gaps : w = GapWorkerId(n)
                            THEN [NoTask EXCEPT !.pc = "search",
                                    !.round = state.iteration_count + 1,
                                    !.worker = NewWorker(analyze_gaps(
                                        CHOOSE n \in gaps : w = GapWorkerId(n), {}))]
                            ELSE NoTask]
              /\ rounds' = IF gaps # {} THEN rounds + 1 ELSE rounds
              /\ hist' = [hist EXCEPT !.missingOwner = {}]
    /\ pc' = "final"
    /\ UNCHANGED <<storeVars, web, persisted, fetched, markWon, markedRound, killed, llmVars, repoVars, runVars>>

\* After the gap-fill gather: status = "completed", save_state, return.
\* The summary dictionary run() returns (the topic, a constant of the run, is
\* left out).
SummaryMutantCountsVerified(st) ==
    [status |-> st.status,
     entities_found |-> Cardinality({n \in Names :
                            /\ st.known_entities[n].exists
                            /\ st.known_entities[n].verification_status = "VERIFIED"}),
     iterations |-> st.iteration_count]

Summary(st) ==
    [status |-> st.status,
     entities_found |-> Cardinality({n \in Names : st.known_entities[n].exists}),
     iterations |-> st.iteration_count]

Finalize ==
    /\ pc = "final"
    /\ \A w \in TaskIds : task[w].pc \in {"idle", "done"}
    /\ state' = [state EXCEPT !.status = "completed"]
    /\ persisted' = state'
    /\ ret' = Summary(state')
    /\ pc' = "done"
    /\ task' = [w \in TaskIds |-> NoTask]
    /\ hist' = NoHist
    /\ UNCHANGED <<storeVars, web, fetched, markWon, markedRound, killed, rounds, llmVars, repoVars, run>>

\* ========================================================================
\* LLM calls: the retry wrapper, initial planning, link scoring
\* (llm.py, workflow_planning.py, agent.py, link_scorer.py)
\* ========================================================================

\* Program constant: stop=stop_after_attempt(5) of LLMHandler.acomplete/achat.
STOP_AFTER_ATTEMPT == 5

\* Bounds of the LLM model
MaxJobs == 2
MaxLinks == 2
chunk_size == 1

Topics == {"", "T1"}
LinkUrls == {"l1", "l2", "l3"}
LinkLists ==
    {s \in UNION {[1..n -> LinkUrls] : n \in 0..MaxLinks} :
        \A i, j \in 1..Len(s) : i # j => s[i] # s[j]}

\* What one attempt of GoogleGenAI.acomplete can raise, as far as the
\* wrapper tells them apart.
Exceptions == {"ResourceExhausted", "ServerError", "Other"}

\* The response text, as far as its readers tell them apart: a JSON object
\* with the planner's keys, a JSON array of link scores, text that is no
\* JSON, JSON of the expected shape whose fields have the wrong types.
Texts == {"plan_json", "scores_json", "not_json", "bad_fields"}

\* retry=retry_if_exception_type((ResourceExhausted, ServerError))
ShouldRetry(exc) == exc \in {"ResourceExhausted", "ServerError"}

\* stop=stop_after_attempt(5): true once attempt_number has reached 5.
ShouldStopMutantLate(attempt_number) == attempt_number >= STOP_AFTER_ATTEMPT + 1

ShouldStop(attempt_number) == attempt_number >= STOP_AFTER_ATTEMPT

\* No reraise=True: when the attempts are used up tenacity raises
\* RetryError, which wraps the last exception.
RetryOutcomeMutantReraise(last_exc) == last_exc

RetryOutcome(last_exc) == "RetryError"

NoLlm == [status |-> "idle", attempt_number |-> 0, failures |-> 0,
          exc |-> None, text |-> None]

NoPlan == [initial_workers |-> <<>>, budget_reserve_pct |-> 0,
           current_hypothesis |-> "", findings_summary |-> "", next_steps |-> <<>>]

\* scored: the scores of this call's chunks so far (-1: none yet).
NoJob == [kind |-> "none", pc |-> "idle", n |-> 0, topic |-> "", links |-> <<>>,
          todo |-> <<>>, scored |-> [u \in LinkUrls |-> -1], failed |-> {},
          plan |-> NoPlan, result |-> <<>>, raised |-> FALSE]

\* LLMHandler.acomplete, one attempt that returns a response.
LlmReturns ==
    /\ llm.status = "running"
    /\ \E t \in Texts :
          llm' = [llm EXCEPT !.status = "returned", !.attempt_number = @ + 1, !.text = t]
    /\ UNCHANGED <<storeVars, orchVars, repoVars, runVars, job, linkCache>>

\* One attempt that raises: an exception the predicate does not retry
\* leaves at once; a retried one leaves as RetryError when the stop
\* condition holds, and is followed by another attempt (after the
\* exponential wait) otherwise.
LlmRaises ==
    /\ llm.status = "running"
    /\ \E e \in Exceptions :
          LET attempt_number == llm.attempt_number + 1 IN
          llm' = IF ~ShouldRetry(e)
                 THEN [llm EXCEPT !.status = "raised", !.attempt_number = attempt_number,
                                  !.exc = e]
                 ELSE IF ShouldStop(attempt_number)
                 THEN [llm EXCEPT !.status = "raised", !.attempt_number = attempt_number,
                                  !.failures = @ + 1, !.exc = RetryOutcome(e)]
                 ELSE [llm EXCEPT !.attempt_number = attempt_number, !.failures = @ + 1]
    /\ UNCHANGED <<storeVars, orchVars, repoVars, runVars, job, linkCache>>

\* ---------------- initial planning ----------------

\* The plan built from a well-formed response (budget_reserve_pct in
\* hundredths: 0.6 is 60).
ParsedPlan(topic) ==
    [initial_workers |->
        <<[worker_id |-> "w1", strategy |-> "s1", example_queries |-> <<"q0">>,
           page_budget |-> 50],
          [worker_id |-> "w2", strategy |-> "s2", example_queries |-> <<"q1">>,
           page_budget |-> 50]>>,
     budget_reserve_pct |-> 60,
     current_hypothesis |-> "Planning for " \o topic,
     findings_summary |-> "Expert planning executed successfully.",
     next_steps |-> <<"s1", "s2">>]

\* "Fallback Plan" of generate_comprehensive_plan.
FallbackPlan(topic, e) ==
    [initial_workers |->
        <<[worker_id |-> "worker_1", strategy |-> "broad_fallback",
           example_queries |-> <<topic>>, page_budget |-> 30]>>,
     budget_reserve_pct |-> 50,
     current_hypothesis |-> "Fallback Plan",
     findings_summary |-> "Error parsing plan: " \o e,
     next_steps |-> <<>>]

\* The fallback of ResearchAgent.generate_initial_plan.
ErrorPlan(topic) ==
    [initial_workers |-> <<>>,
     budget_reserve_pct |-> 60,
     current_hypothesis |-> "Exploring " \o topic \o " (Fallback due to error)",
     findings_summary |-> "Error in planning workflow",
     next_steps |-> <<"broad_search">>]

\* What parsing the response raises in generate_comprehensive_plan:
\* json.loads on text that is no JSON, data.get on a JSON array,
\* InitialWorkerStrategy(**w) on fields of the wrong type.
PlanParseError(text) ==
    IF text = "plan_json" THEN None
    ELSE IF text = "not_json" THEN "JSONDecodeError"
    ELSE IF text = "scores_json" THEN "AttributeError"
    ELSE "ValidationError"

\* except (ValueError, KeyError, json.JSONDecodeError, AttributeError,
\* TypeError): pydantic's ValidationError is a ValueError.
CaughtByPlannerMutantJsonOnly(exc) == exc = "JSONDecodeError"

CaughtByPlanner(exc) ==
    exc \in {"ValueError", "KeyError", "JSONDecodeError", "AttributeError",
             "TypeError", "ValidationError"}

\* agent.generate_initial_plan(topic) is called.
StartPlan ==
    /\ job.pc \in {"idle", "done"}
    /\ job.n < MaxJobs
    /\ \E topic \in Topics :
          job' = [NoJob EXCEPT !.kind = "plan", !.pc = "construct", !.n = job.n + 1,
                               !.topic = topic]
    /\ llm' = NoLlm
    /\ UNCHANGED <<storeVars, orchVars, repoVars, runVars, linkCache>>

\* InitialPlanningWorkflow(...), before the try: __init__ calls get_llm,
\* which raises ValueError when no API key is configured.
PlanConstruct ==
    /\ job.kind = "plan" /\ job.pc = "construct"
    /\ \E configured \in BOOLEAN :
          job' = IF configured THEN [job EXCEPT !.pc = "run"]
                 ELSE [job EXCEPT !.pc = "done", !.raised = TRUE]
    /\ UNCHANGED <<storeVars, orchVars, repoVars, runVars, llm, linkCache>>

\* planning_workflow.run(topic=topic): the step raises ValueError on a
\* missing topic, which the except of generate_initial_plan turns into
\* its fallback; otherwise it awaits self.llm.acomplete(prompt_str).
PlanRun ==
    /\ job.kind = "plan" /\ job.pc = "run"
    /\ IF job.topic = ""
       THEN /\ job' = [job EXCEPT !.pc = "done", !.plan = ErrorPlan(job.topic)]
            /\ llm' = llm
       ELSE /\ job' = [job EXCEPT !.pc = "await"]
            /\ llm' = [NoLlm EXCEPT !.status = "running"]
    /\ UNCHANGED <<storeVars, orchVars, repoVars, runVars, linkCache>>

\* The rest of generate_comprehensive_plan and of generate_initial_plan,
\* once acomplete has returned or raised.
PlanFinish ==
    /\ job.kind = "plan" /\ job.pc = "await"
    /\ llm.status \in {"returned", "raised"}
    /\ LET e == PlanParseError(llm.text)
           plan == IF llm.status = "raised" THEN ErrorPlan(job.topic)
                   ELSE IF e = None THEN ParsedPlan(job.topic)
                   ELSE IF CaughtByPlanner(e) THEN FallbackPlan(job.topic, e)
                   ELSE ErrorPlan(job.topic)
       IN  job' = [job EXCEPT !.pc = "done", !.plan = plan]
    /\ UNCHANGED <<storeVars, orchVars, repoVars, runVars, llm, linkCache>>

\* ---------------- link scoring ----------------

Chunk(todo) == Prefix(todo, chunk_size)

Rest(todo) == SubSeq(todo, Len(Chunk(todo)) + 1, Len(todo))

\* "3. Assemble final list in original order", after the cache update.
FinalResults(links, cache, scored) ==
    [i \in 1..Len(links) |->
        LET url == links[i] IN
        IF scored[url] >= 0
        THEN [url |-> url, score |-> scored[url], cached |-> FALSE]
        ELSE IF cache[url] >= 0
        THEN [url |-> url, score |-> cache[url], cached |-> TRUE]
        ELSE [url |-> url, score |-> 5, cached |-> FALSE]]

\* The end of one _process_batch_request with the given scores for its
\* chunk, and of score_links_batch when it was the last chunk.
AfterChunk(j, chunk_scores, chunk_failed) ==
    LET chunk == Chunk(j.todo)
        scored == [u \in LinkUrls |->
                     IF u \in Range(chunk) THEN chunk_scores ELSE j.scored[u]]
        failed == IF chunk_failed THEN j.failed \cup Range(chunk) ELSE j.failed
        rest == Rest(j.todo)
    IN  [j EXCEPT !.todo = rest, !.scored = scored, !.failed = failed,
                  !.pc = IF rest = <<>> THEN "done" ELSE "chunk",
                  !.result = IF rest = <<>>
                             THEN FinalResults(j.links, linkCache, scored) ELSE <<>>]

CacheAfter(j) ==
    IF j.pc = "done" /\ ~j.raised
    THEN [u \in LinkUrls |-> IF j.scored[u] >= 0 THEN j.scored[u] ELSE linkCache[u]]
    ELSE linkCache

\* score_links_batch(links, research_query) up to the first LLM call:
\* nothing to do for no links, cached results only when every link is
\* cached, chunks of chunk_size otherwise.
StartScore ==
    /\ job.pc \in {"idle", "done"}
    /\ job.n < MaxJobs
    /\ \E links \in LinkLists :
          LET links_to_score == SelectNotIn(links, {u \in LinkUrls : linkCache[u] >= 0})
              j == [NoJob EXCEPT !.kind = "score", !.n = job.n + 1, !.links = links,
                                 !.todo = links_to_score]
          IN  job' = IF links_to_score = <<>>
                     THEN [j EXCEPT !.pc = "done",
                                    !.result = FinalResults(links, linkCache, j.scored)]
                     ELSE [j EXCEPT !.pc = "chunk"]
    /\ llm' = NoLlm
    /\ UNCHANGED <<storeVars, orchVars, repoVars, runVars, linkCache>>

\* _process_batch_request up to its LLM call: LLMClient(model_name) raises
\* ValueError without an API key, inside the try, so the chunk gets the
\* neutral score.
ScoreChunkStart ==
    /\ job.kind = "score" /\ job.pc = "chunk"
    /\ \E configured \in BOOLEAN :
          IF configured
          THEN /\ job' = [job EXCEPT !.pc = "await"]
               /\ llm' = [NoLlm EXCEPT !.status = "running"]
               /\ linkCache' = linkCache
          ELSE /\ job' = AfterChunk(job, 5, TRUE)
               /\ llm' = NoLlm
               /\ linkCache' = CacheAfter(job')
    /\ UNCHANGED <<storeVars, orchVars, repoVars, runVars>>

\* _process_batch_request after llm_client.generate: scores from a parsed
\* array; 5 for every link when parsing gives no list or int() raises, or
\* when generate raised anything but ResourceExhausted, which is raised
\* again and leaves score_links_batch through asyncio.gather.
ScoreChunkFinish ==
    /\ job.kind = "score" /\ job.pc = "await"
    /\ llm.status \in {"returned", "raised"}
    /\ job' = IF llm.status = "raised" /\ llm.exc = "ResourceExhausted"
              THEN [job EXCEPT !.pc = "done", !.raised = TRUE]
              ELSE IF llm.status = "returned" /\ llm.text = "scores_json"
              THEN AfterChunk(job, 8, FALSE)
              ELSE AfterChunk(job, 5, TRUE)
    /\ linkCache' = CacheAfter(job')
    /\ UNCHANGED <<storeVars, orchVars, repoVars, runVars, llm>>

InitLlmVars ==
    /\ llm = NoLlm
    /\ job = NoJob
    /\ linkCache = [u \in LinkUrls |-> -1]

\* ========================================================================
\* ResearchRepository (db/repository.py): entities with their evidence,
\* session rows
\* ========================================================================

\* Bound of the repository model: snippets in the evidence of one
\* save_entity call
MaxEvidence == 2

EvidenceUrls == {"u1", "u2"}
Timestamps == {"t1", "t2"}
EvidenceSnippets == [source_url : EvidenceUrls, content : {"c1"}, timestamp : Timestamps]
EvidenceLists == UNION {[1..n -> EvidenceSnippets] : n \in 0..MaxEvidence}

\* (e.source_url, e.content), the key of existing_signatures.
Signature(e) == <<e.source_url, e.content>>

\* The statuses DeepResearchOrchestrator.run assigns to state.status, and
\* the Literal types of ResearchState.status and WorkerState.status.
OrchestratorStatuses == {"running", "verification_pending", "completed"}
StatusLiteral == {"initialized", "running", "completed", "failed"}
WorkerStatusLiteral == {"PRODUCTIVE", "DECLINING", "EXHAUSTED", "DEAD_END", "ACTIVE"}

NoDump == [status |-> "none"]
NoRepo == [op |-> "none", key |-> None, raised |-> None, result |-> NoDump]

\* save_entity, the upsert of the entity row: both dialect branches read
\* the name entity_data (values(**entity_data), entity_data.items(),
\* EntityModel(**entity_data)), which neither the function nor the module
\* binds: NameError, before anything is added to the session.
UpsertEntity(rows, name) == [rows |-> rows, raised |-> "NameError"]

\* "Append ONLY new evidence": a snippet whose signature is neither in the
\* rows loaded nor among those appended so far becomes a row.
RECURSIVE AppendNewEvidence(_, _)
AppendNewEvidence(rows, evidence) ==
    IF evidence = <<>> THEN rows
    ELSE LET ev == Head(evidence)
             existing_signatures == {Signature(rows[i]) : i \in 1..Len(rows)} IN
         IF Signature(ev) \notin existing_signatures
         THEN AppendNewEvidence(Append(rows, ev), Tail(evidence))
         ELSE AppendNewEvidence(rows, Tail(evidence))

\* ResearchRepository.save_entity(entity): upsert, re-fetch, append, commit.
SaveEntity ==
    \E n \in Names, evidence \in EvidenceLists :
        LET up == UpsertEntity(dbEntities, n) IN
        /\ saved' = saved \cup {<<n, Signature(evidence[i])>> : i \in 1..Len(evidence)}
        /\ repo' = [NoRepo EXCEPT !.op = "save_entity", !.key = n, !.raised = up.raised]
        /\ IF up.raised # None
           THEN UNCHANGED <<dbEntities, dbEvidence>>
           ELSE /\ dbEntities' = up.rows
                /\ dbEvidence' = [dbEvidence EXCEPT ![n] = AppendNewEvidence(@, evidence)]
        /\ UNCHANGED <<dbVisited, cacheVisited, cacheEntities, callerVars, orchVars,
                       llmVars, sessions, lastSaved, runVars>>

\* A set as the JSON array model_dump(mode="json") writes for it.
RECURSIVE SetToSeq(_)
SetToSeq(S) ==
    IF S = {} THEN <<>>
    ELSE LET x == CHOOSE y \in S : TRUE IN <<x>> \o SetToSeq(S \ {x})

\* state.model_dump(mode="json"): the sets (visited_urls, the aliases of an
\* entity) become arrays; a status outside its Literal is written as it is.
ModelDump(st) ==
    [st EXCEPT !.visited_urls = SetToSeq(@),
               !.known_entities = [n \in Names |-> [@[n] EXCEPT !.aliases = SetToSeq(@)]]]

\* ResearchState.model_validate(state_dump): the arrays become sets again;
\* a status that is not one of the Literal's values is a ValidationError.
ModelValidate(dump) ==
    IF \/ dump.status \notin StatusLiteral
       \/ \E w \in WorkerIds : dump.workers[w].exists
                               /\ dump.workers[w].status \notin WorkerStatusLiteral
    THEN [raised |-> "ValidationError", state |-> NoDump]
    ELSE [raised |-> None,
          state |-> [dump EXCEPT
                       !.visited_urls = Range(@),
                       !.known_entities =
                           [n \in Names |-> [@[n] EXCEPT !.aliases = Range(@)]]]]

\* The states save_session is called with: what the orchestrator holds at
\* one of its save_state calls.
SessionStates ==
    {[InitialState EXCEPT
        !.status = s, !.iteration_count = 1, !.visited_urls = {"u3"},
        !.workers["A"] = NewWorker(<<"q0">>),
        !.known_entities["E1"] =
            [NoEntity EXCEPT !.exists = TRUE, !.aliases = a, !.mention_count = 1]] :
        s \in OrchestratorStatuses, a \in {{"alias1"}, {"E1", "alias1"}}}

\* ResearchRepository.save_session(state): update the row of state.id, or
\* insert it; commit.
SaveSession ==
    \E id \in ResearchIds, st \in SessionStates :
        /\ sessions' = [sessions EXCEPT ![id] = ModelDump(st)]
        /\ lastSaved' = [lastSaved EXCEPT ![id] = st]
        /\ repo' = [NoRepo EXCEPT !.op = "save_session", !.key = id]
        /\ UNCHANGED <<storeVars, orchVars, llmVars, dbEvidence, saved, runVars>>

\* ResearchRepository.get_session(session_id): None without a row, else the
\* state rebuilt from state_dump.
GetSession ==
    \E id \in ResearchIds :
        /\ repo' = IF sessions[id] = NoDump
                   THEN [NoRepo EXCEPT !.op = "get_session", !.key = id]
                   ELSE LET v == ModelValidate(sessions[id]) IN
                        [op |-> "get_session", key |-> id,
                         raised |-> v.raised, result |-> v.state]
        /\ UNCHANGED <<storeVars, orchVars, llmVars, dbEvidence, sessions, saved,
                       lastSaved, runVars>>

InitRepoVars ==
    /\ dbEvidence = [n \in Names |-> <<>>]
    /\ sessions = [id \in ResearchIds |-> NoDump]
    /\ repo = NoRepo
    /\ saved = {}
    /\ lastSaved = [id \in ResearchIds |-> NoDump]

\* ------------------------------------------------------------------------
\* Specifications
\* ------------------------------------------------------------------------
\* The first run of the orchestrator, nothing returned yet.
NoSummary == [status |-> "none"]

InitRunVars ==
    /\ run = [n |-> 1, first |-> None]
    /\ ret = NoSummary

InitOrchVars ==
    /\ pc = "init"
    /\ state = InitialState
    /\ persisted = NoSession
    /\ task = [w \in TaskIds |-> NoTask]
    /\ fetched = {}
    /\ markWon = {}
    /\ markedRound = [u \in Urls |-> 0]
    /\ killed = {}
    /\ rounds = 0
    /\ hist = NoHist

Init == InitStoreVars /\ InitOrchVars /\ InitLlmVars /\ InitRepoVars /\ InitRunVars /\ web \in Webs

WorkerStep(w) ==
    \/ WSearch(w)
    \/ WGate(w)
    \/ WMarkUrl(w)
    \/ WMarkUrlDbError(w)
    \/ WFetch(w)
    \/ WPersistWrite(w)

Next ==
    \/ Start
    \/ InitialPlan
    \/ SaveAndLoop
    \/ Gather
    \/ UpdatePlan
    \/ UpdatePlanFailed
    \/ SaveVerificationPending
    \/ Verify
    \/ Finalize
    \/ \E w \in TaskIds : WorkerStep(w)

\* Runs in which every activity returns and the planner either answers or
\* fails before it has read a decision.
Spec == Init /\ [][Next]_vars

\* The same workflow in one world, with the failures added: a worker
\* iteration that ends in failure, a planner that fails after it has read
\* its decisions.
FailWeb ==
    [search |-> [q \in Queries |-> IF q = "q0" THEN <<"u1", "u2">> ELSE <<"u2">>],
     netloc |-> UrlNetloc,
     pages |-> [u \in Urls |->
                  IF u = "u1" THEN [kind |-> "pdfAlias", name |-> "E1", links |-> <<"u3">>]
                  ELSE IF u = "u2" THEN [kind |-> "pdf", name |-> "E1", links |-> <<>>]
                  ELSE [kind |-> "pdf", name |-> "E2", links |-> <<>>]]]

InitFail == InitStoreVars /\ InitOrchVars /\ InitLlmVars /\ InitRepoVars /\ InitRunVars /\ web = FailWeb

NextFail ==
    \/ Next
    \/ GatherFailed
    \/ UpdatePlanFailedLate
    \/ \E w \in TaskIds : WFail(w)

SpecFail == InitFail /\ [][NextFail]_vars

\* The same workflow in a world of pages with many links: the search
\* result 0 links to more pages than a queue may hold, the first of them
\* links to further ones.  URLs are numbers here.
ExtraLinks == 2

QueueUrls == 0..(MAX_QUEUE_SIZE + 2 * ExtraLinks)

QueueWeb ==
    [search |-> [q \in Queries |-> IF q = "q0" THEN <<0>> ELSE <<>>],
     netloc |-> [u \in QueueUrls |-> "a.org"],
     pages |-> [u \in QueueUrls |->
                  IF u = 0
                  THEN [kind |-> "pdf", name |-> "E1",
                        links |-> [i \in 1..(MAX_QUEUE_SIZE + ExtraLinks) |-> i]]
                  ELSE IF u = 1
                  THEN [kind |-> "pdf", name |-> "E2",
                        links |-> [i \in 1..ExtraLinks |-> MAX_QUEUE_SIZE + ExtraLinks + i]]
                  ELSE [kind |-> "empty", name |-> "E1", links |-> <<>>]]]

InitQueue ==
    /\ InitStoreVars /\ InitLlmVars /\ InitRepoVars /\ InitRunVars
    /\ web = QueueWeb
    /\ pc = "init"
    /\ state = InitialState
    /\ persisted = NoSession
    /\ task = [w \in TaskIds |-> NoTask]
    /\ fetched = {}
    /\ markWon = {}
    /\ markedRound = [u \in QueueUrls |-> 0]
    /\ killed = {}
    /\ rounds = 0
    /\ hist = NoHist

SpecQueue == InitQueue /\ [][Next]_vars

\* ---------------- stubbed vendors, two runs ----------------

\* The planner stub: initial_workers names the workers A and B with the
\* query q0; every adaptive plan is empty (no spawn, no kill, no query
\* update).  The verifier stub answers VERIFIED.
FixedInitialPlan ==
    /\ InitialPlan
    /\ \A w \in WorkerIds : state'.workers[w].exists

FixedUpdatePlan ==
    /\ UpdatePlan
    /\ state'.plan.workers_to_kill = {}
    /\ state'.plan.updated_queries = {}
    /\ state'.plan.initial_workers = state.plan.initial_workers

FixedVerify ==
    /\ Verify
    /\ \A n \in Names : state'.known_entities[n].exists =>
                            state'.known_entities[n].verification_status = "VERIFIED"

\* search_engine == "tavily": the same step as WSearch on the results of
\* TavilySearchClient.search.
WSearchTavily(w) ==
    /\ task[w].pc = "search"
    /\ LET t == task[w]
           ws == t.worker
           search_results == Flatten([i \in 1..Len(ws.queries) |->
                                         IF ws.queries[i] \in Queries
                                         THEN web.tavily[ws.queries[i]] ELSE <<>>])
           priority_links == PriorityLinks(ws)
           url_queue == search_results \o
                        Prefix(priority_links, Max(0, PageBudget - Len(search_results)))
           t2 == [t EXCEPT !.pc = "gate", !.url_queue = url_queue, !.idx = 1,
                           !.valid_urls = <<>>,
                           !.worker.personal_queue =
                               SelectNotIn(ws.personal_queue, Range(url_queue))]
       IN  task' = [task EXCEPT ![w] = AfterGate(w, t2)]
    /\ UNCHANGED <<dbVisited, cacheVisited, dbEntities, cacheEntities, callerVars,
                   web, pc, state, persisted, fetched, markWon, markedRound,
                   killed, rounds, hist, llmVars, repoVars, runVars>>

\* The workflow is started again on the same topic after the first run has
\* returned.  The new run has a fresh session id: it is the one the model
\* calls SessionId from here on, and the rows and cache sets of the
\* finished run are kept under the other id.  The entities table and the
\* Redis set known_entities have no session id and are inherited.
OtherSessionId == CHOOSE r \in ResearchIds : r # SessionId

Restart ==
    /\ pc = "done"
    /\ run.n = 1
    /\ run' = [n |-> 2, first |-> state.known_entities]
    /\ dbVisited' = {<<k[1], OtherSessionId>> : k \in dbVisited}
    /\ cacheVisited' = {<<k[1], OtherSessionId>> : k \in cacheVisited}
    /\ pc' = "init"
    /\ state' = InitialState
    /\ persisted' = NoSession
    /\ task' = [w \in TaskIds |-> NoTask]
    /\ fetched' = {}
    /\ markWon' = {}
    /\ markedRound' = [u \in Urls |-> 0]
    /\ killed' = {}
    /\ rounds' = 0
    /\ hist' = NoHist
    /\ ret' = NoSummary
    /\ UNCHANGED <<dbEntities, cacheEntities, callerVars, web, llmVars, repoVars>>

\* Two engines, a chain of pages: the first page carries no entity and
\* links to the second, the second carries E1 and links to the third, the
\* third carries E2.  Perplexity answers q0 with the first page, Tavily
\* with the third.
TwiceWeb ==
    [search |-> [q \in Queries |-> IF q = "q0" THEN <<"u1">> ELSE <<>>],
     netloc |-> UrlNetloc,
     tavily |-> [q \in Queries |-> IF q = "q0" THEN <<"u3">> ELSE <<>>],
     pages |-> [u \in Urls |->
                  IF u = "u1" THEN [kind |-> "empty", name |-> "E1", links |-> <<"u2">>]
                  ELSE IF u = "u2" THEN [kind |-> "pdf", name |-> "E1", links |-> <<"u3">>]
                  ELSE [kind |-> "pdf", name |-> "E2", links |-> <<>>]]]

InitTwice == InitStoreVars /\ InitOrchVars /\ InitLlmVars /\ InitRepoVars /\ InitRunVars /\ web = TwiceWeb

NextTwice ==
    \/ Start
    \/ FixedInitialPlan
    \/ SaveAndLoop
    \/ Gather
    \/ FixedUpdatePlan
    \/ SaveVerificationPending
    \/ FixedVerify
    \/ Finalize
    \/ Restart
    \/ \E w \in TaskIds : WorkerStep(w) \/ WSearchTavily(w)

SpecTwice == InitTwice /\ [][NextTwice]_vars

\* The stubs of the end-to-end scenario: the searcher answers every query
\* with the same two URLs, the first page yields one entity (from either
\* extractor), the second nothing, neither has links.
ScenarioWebs ==
    {[search |-> [q \in Queries |-> <<"u1", "u2">>],
      netloc |-> UrlNetloc,
      pages |-> [u \in Urls |->
                   IF u = "u1" THEN [kind |-> k, name |-> "E1", links |-> <<>>]
                   ELSE IF u = "u2" THEN [kind |-> "empty", name |-> "E1", links |-> <<>>]
                   ELSE [kind |-> "pdf", name |-> "E2", links |-> <<>>]]] :
        k \in {"pdf", "crawl"}}

InitScenario == InitStoreVars /\ InitOrchVars /\ InitLlmVars /\ InitRepoVars /\ InitRunVars /\ web \in ScenarioWebs

NextScenario ==
    \/ Start
    \/ FixedInitialPlan
    \/ SaveAndLoop
    \/ Gather
    \/ FixedUpdatePlan
    \/ SaveVerificationPending
    \/ FixedVerify
    \/ Finalize
    \/ \E w \in TaskIds : WorkerStep(w)

SpecScenario == InitScenario /\ [][NextScenario]_vars

\* The scenario's searcher, fetcher and planner with a verifier that
\* answers anything, under the entity's name or under another one.
NextVerify ==
    \/ Start
    \/ FixedInitialPlan
    \/ SaveAndLoop
    \/ Gather
    \/ FixedUpdatePlan
    \/ SaveVerificationPending
    \/ Verify
    \/ VerifyMisnamed
    \/ Finalize
    \/ \E w \in TaskIds : WorkerStep(w)

SpecVerify == InitScenario /\ [][NextVerify]_vars

\* ---------------- one worker iteration in detail ----------------

\* The page budget of the fallback plan's worker (page_budget=30), below
\* the WORKER_PAGE_BUDGET default of 50 the activity reads.
FallbackPageBudget == PageBudget - 1

\* Initial planning when the planner's answer cannot be parsed: the plan
\* is the fallback plan with its one worker, and the workflow builds the
\* WorkerState from worker_id, strategy and example_queries.
InitialPlanFallback ==
    /\ pc = "planning"
    /\ state' = [state EXCEPT
                   !.plan.initial_workers =
                       {[worker_id |-> "A", example_queries |-> <<"q0">>,
                         page_budget |-> FallbackPageBudget]},
                   !.workers = [w \in WorkerIds |->
                                  IF w = "A" THEN NewWorker(<<"q0">>) ELSE NoWorker]]
    /\ pc' = "save"
    /\ UNCHANGED <<storeVars, web, persisted, task, fetched, markWon, markedRound,
                   killed, rounds, hist, llmVars, repoVars, runVars>>

\* The PDF fallback raises: entity_extractor.extract_entities fails on the
\* k-th row of the batch, the try has a finally and no except, and the
\* exception leaves the activity.  The rows before it were processed.
WFetchPdfFails(w) ==
    /\ task[w].pc = "fetch"
    /\ \E k \in 1..Len(task[w].valid_urls) :
          LET t == task[w]
              acc == ProcessResults(Prefix(t.valid_urls, k - 1), EmptyAcc,
                                    Len(t.worker.personal_queue)) IN
          /\ web.pages[t.valid_urls[k]].kind \in {"pdf", "pdfAlias"}
          /\ fetched' = fetched \cup {<<t.valid_urls[i], w, t.round>> : i \in 1..k}
          /\ dbEntities' = acc.rows
          /\ cacheEntities' = cacheEntities \cup
                 {acc.new_entities_found[i].canonical : i \in 1..Len(acc.new_entities_found)}
          /\ cacheVisited' = acc.cache
          /\ task' = [task EXCEPT ![w].pc = "failed"]
    /\ UNCHANGED <<dbVisited, callerVars, web, pc, state, persisted,
                   markWon, markedRound, killed, rounds, hist, llmVars, repoVars, runVars>>

\* A world for the iteration: the query q0 finds the pages 0 and 1 of one
\* site, the query q1 the pages 2, 4 and 3 of another; the pages 0, 1 and 2
\* link to page 3.
IterUrls == {0, 1, 2, 3, 4}

IterWeb ==
    [search |-> [q \in Queries |-> IF q = "q0" THEN <<0, 1>> ELSE <<2, 4, 3>>],
     netloc |-> [u \in IterUrls |-> IF u \in {0, 1} THEN "a.org" ELSE "b.org"],
     pages |-> [u \in IterUrls |->
                  IF u = 0 THEN [kind |-> "pdf", name |-> "E1", links |-> <<3>>]
                  ELSE IF u = 1 THEN [kind |-> "empty", name |-> "E1", links |-> <<3>>]
                  ELSE IF u = 2 THEN [kind |-> "pdf", name |-> "E2", links |-> <<3>>]
                  ELSE IF u = 3 THEN [kind |-> "pdfAlias", name |-> "E1", links |-> <<>>]
                  ELSE [kind |-> "empty", name |-> "E1", links |-> <<>>]]]

InitIter ==
    /\ InitStoreVars /\ InitLlmVars /\ InitRepoVars /\ InitRunVars
    /\ web = IterWeb
    /\ pc = "init"
    /\ state = InitialState
    /\ persisted = NoSession
    /\ task = [w \in TaskIds |-> NoTask]
    /\ fetched = {}
    /\ markWon = {}
    /\ markedRound = [u \in IterUrls |-> 0]
    /\ killed = {}
    /\ rounds = 0
    /\ hist = NoHist

NextIter ==
    \/ Start
    \/ InitialPlanFallback
    \/ SaveAndLoop
    \/ Gather
    \/ GatherFailed
    \/ UpdatePlan
    \/ SaveVerificationPending
    \/ FixedVerify
    \/ Finalize
    \/ \E w \in TaskIds : WorkerStep(w) \/ WFail(w) \/ WFetchPdfFails(w)

SpecIter == InitIter /\ [][NextIter]_vars

InitStore == InitStoreVars /\ InitOrchVars /\ InitLlmVars /\ InitRepoVars /\ InitRunVars /\ web = CHOOSE x \in Webs : TRUE

CallerStep(p) ==
    \/ StartMarkUrl(p)
    \/ MarkUrlDbInsert(p)
    \/ MarkUrlDbError(p)
    \/ MarkUrlCacheAdd(p)
    \/ StartIsUrlVisited(p)
    \/ IsUrlCacheCheck(p)
    \/ IsUrlDbCheck(p)
    \/ StartMarkEntity(p)
    \/ MarkEntitySelect(p)
    \/ MarkEntityWrite(p)
    \/ MarkEntityDbError(p)
    \/ MarkEntityCacheAdd(p)

NextStore == \E p \in Callers : CallerStep(p)

SpecStore == InitStore /\ [][NextStore]_vars

\* Calls of generate_initial_plan and of score_links_batch, one after the
\* other, each with its LLM calls.
InitLlm == InitStore

NextLlm ==
    \/ LlmReturns
    \/ LlmRaises
    \/ StartPlan
    \/ PlanConstruct
    \/ PlanRun
    \/ PlanFinish
    \/ StartScore
    \/ ScoreChunkStart
    \/ ScoreChunkFinish

SpecLlm == InitLlm /\ [][NextLlm]_vars

\* Calls of the repository, one after the other.
InitRepo == InitStore

NextRepo ==
    \/ SaveEntity
    \/ SaveSession
    \/ GetSession

SpecRepo == InitRepo /\ [][NextRepo]_vars

\* ========================================================================
\* Properties of the deduplication store (checked under SpecStore)
\* ========================================================================

MarkUrlInProgress(k) ==
    \E p \in Callers : call[p].op = "mark_url" /\ call[p].key = k

MarkEntityInProgress(n) ==
    \E p \in Callers : call[p].op = "mark_entity" /\ call[p].name = n

\* Calls of mark_entity_known(n, ...) that have committed their insert and
\* are about to return True.
InsertedNotReturned(n) ==
    Cardinality({p \in Callers : /\ call[p].op = "mark_entity"
                                 /\ call[p].name = n
                                 /\ call[p].pc = "cache"
                                 /\ call[p].is_new})

\* C1, as stated: for every URL u and research_id r, once the concurrent
\* mark_url_visited(u, r) calls have all returned (and there was at least
\* one), exactly one of them returned true and every other one false.
C1_ExactlyOneReturnsTrue ==
    \A k \in UrlKeys :
        (urlReturns[k].t + urlReturns[k].f > 0 /\ ~MarkUrlInProgress(k))
            => urlReturns[k].t = 1

\* C7, as stated: once the stored value of an attribute of an entity is
\* non-empty and not "Unknown", no later step of any mark_entity_known call
\* changes it, whatever the interleaving of the callers.
C7_PopulatedSlotNeverChanges ==
    [][\A n \in Names, k \in AttrKeys :
          (dbEntities[n].exists /\ Populated(dbEntities[n].attributes[k]))
              => dbEntities'[n].attributes[k] = dbEntities[n].attributes[k]]_vars

C2_OneFetcherPerUrlAndIteration ==
    \A f, g \in fetched : (f[1] = g[1] /\ f[3] = g[3]) => f[2] = g[2]

C4_ReachesFinalWithinBudget ==
    /\ pc = "done" \/ ENABLED Next
    /\ rounds <= MAX_ITERATIONS + 1

\* C5: no step removes an entity from known_entities (nor an alias, a
\* mention or an evidence snippet of one), so known_entities at the end of
\* a later iteration contains known_entities at the end of an earlier one.
C5_NoForgetting ==
    [][\A n \in Names :
          state.known_entities[n].exists =>
              /\ state'.known_entities[n].exists
              /\ state.known_entities[n].aliases \subseteq state'.known_entities[n].aliases
              /\ state'.known_entities[n].mention_count >= state.known_entities[n].mention_count
              /\ Len(state'.known_entities[n].evidence) >= Len(state.known_entities[n].evidence)
      ]_vars

\* C5, witness: a run that completed two iterations or more, with an entity
\* first seen in an early iteration and another one found later.
C5_TwoIterationsWitness ==
    /\ pc = "done"
    /\ state.iteration_count >= 2
    /\ \A n \in Names : state.known_entities[n].exists

\* C6, as stated: in every reachable ResearchState no entity's evidence list
\* holds two snippets with the same (source_url, content).
C6_NoDuplicateEvidence ==
    \A n \in Names :
        LET ev == state.known_entities[n].evidence IN
        \A i, j \in 1..Len(ev) : i # j => ev[i] # ev[j]

\* C9: the step from iteration N to N+1 is a barrier: while a worker
\* iteration of round N+1 is in flight, every task in flight belongs to that
\* round, the N results have been aggregated (iteration_count = N) and the
\* persisted session holds that aggregated state (the workers' in-flight
\* page and entity counters aside, which the workers checkpoint themselves).
C9_AggregatedAndPersistedBeforeLaunch ==
    \A w \in TaskIds :
        task[w].pc # "idle" =>
            /\ task[w].round = state.iteration_count + 1
            /\ persisted # NoSession
            /\ persisted.iteration_count = state.iteration_count
            /\ persisted.known_entities = state.known_entities
            /\ persisted.visited_urls = state.visited_urls
            /\ persisted.plan = state.plan
            /\ \A v \in WorkerIds :
                  /\ persisted.workers[v].exists = state.workers[v].exists
                  /\ persisted.workers[v].status = state.workers[v].status
                  /\ persisted.workers[v].queries = state.workers[v].queries
                  /\ persisted.workers[v].new_entities = state.workers[v].new_entities
                  /\ persisted.workers[v].personal_queue = state.workers[v].personal_queue

\* C9, witness: a worker iteration of the second round is in flight and the
\* persisted session already holds the entities the first round found.
C9_SecondRoundWitness ==
    \E w \in WorkerIds :
        /\ task[w].pc = "fetch"
        /\ task[w].round = 2
        /\ persisted # NoSession
        /\ persisted.iteration_count = 1
        /\ \E n \in Names : persisted.known_entities[n].exists

\* C10: a worker the planner's kill list was applied to has status DEAD_END
\* from then on and no worker iteration is dispatched for it again, also
\* when a later plan names its id in spawn_workers or in update_queries.
C10_KilledStaysDead ==
    \A w \in killed :
        /\ state.workers[w].status = "DEAD_END"
        /\ task[w].pc = "idle"

\* C10, witness: a killed worker's id is named in the spawn list of the
\* plan in force, and the round in flight runs without it.
C10_RespawnNamedWitness ==
    \E w \in killed :
        /\ \E cfg \in state.plan.initial_workers :
              cfg.worker_id = w /\ cfg.example_queries = <<"q1">>
        /\ pc = "gather"
        /\ \E v \in WorkerIds : task[v].pc # "idle"

\* ========================================================================
\* Properties of the adaptive fleet (checked under Spec)
\* ========================================================================

\* The worker w of spawn_workers is in the workers map as the planner
\* specified it.
SpawnInserted(w) ==
    /\ state.workers[w].exists
    /\ state.workers[w].status = "ACTIVE"
    /\ state.workers[w].queries = <<"q1">>

\* An iteration of w is in flight in the round after the planner call, on
\* the specified queries; once it has searched, its URL queue is the
\* result of searching them.
SpawnDispatched(w) ==
    /\ pc \in {"gather", "failed"}
    /\ task[w].pc # "idle"
    /\ task[w].round = state.iteration_count + 1
    /\ task[w].worker.status = "ACTIVE"
    /\ task[w].worker.queries = <<"q1">>
    /\ task[w].pc \in {"gate", "mark", "fetch", "persist_write", "done"}
           => task[w].url_queue = web.search["q1"]

C13_OwnerGapDispatchesTwoQueries ==
    pc = "final" =>
        \A n \in hist.missingOwner :
            /\ task[GapWorkerId(n)].pc # "idle"
            /\ task[GapWorkerId(n)].worker.queries =
                  <<"\"" \o n \o "\" developer owner company",
                    "who developed \"" \o n \o "\"">>

\* C14, as stated: when the fan-in finds a worker iteration that ended in
\* failure, the orchestrator goes on to the verification phase (status
\* verification_pending) with the state it has collected, from where it
\* reaches FINAL.
C14_FailedIterationGoesToVerifying ==
    [][(pc = "gather" /\ pc' # pc /\ \E w \in WorkerIds : task[w].pc = "failed")
          => (pc' = "vsave" /\ state'.status = "verification_pending")]_vars

\* C15, as stated: a run that ended in failure because an activity error
\* left the workflow has status 'failed' in the persisted session.
C15_FailureSurfacedAsFailedStatus ==
    pc = "failed" => persisted.status = "failed"

\* C16, as stated: when update_plan_adaptive fails, the plan it returns is
\* the plan as it was and the workers map is not changed by the planning
\* step, so the next iteration runs the same workers with the same
\* statuses and queries.
C16_PlannerFailureKeepsPlanAndFleet ==
    [][(pc = "plan" /\ hist'.planner = "failed")
          => (state'.plan = state.plan /\ state'.workers = state.workers)]_vars

\* ========================================================================
\* Properties of the LLM calls (checked under SpecLlm)
\* ========================================================================

\* C17: when the planner's response came back and cannot be parsed into a
\* plan, generate_initial_plan returns a plan with exactly one worker,
\* whose strategy is "broad_fallback", whose example_queries are [topic]
\* and whose page_budget is 30, and with budget_reserve_pct 0.5.
C17_UnparsableResponseGivesFallbackWorker ==
    (/\ job.kind = "plan" /\ job.pc = "done"
     /\ llm.status = "returned"
     /\ llm.text \in {"not_json", "scores_json", "bad_fields"})
    => /\ ~job.raised
       /\ Len(job.plan.initial_workers) = 1
       /\ job.plan.initial_workers[1].strategy = "broad_fallback"
       /\ job.plan.initial_workers[1].example_queries = <<job.topic>>
       /\ job.plan.initial_workers[1].page_budget = 30
       /\ job.plan.budget_reserve_pct = 50

\* The planner answered with a JSON array after two overloaded attempts.
C17_FallbackAfterArrayWitness ==
    /\ job.kind = "plan" /\ job.pc = "done"
    /\ llm.status = "returned" /\ llm.text = "scores_json"
    /\ llm.attempt_number = 3
    /\ job.plan.current_hypothesis = "Fallback Plan"

\* C18, as stated: generate_initial_plan never raises; whatever goes
\* wrong, it returns a plan.
C18_GenerateInitialPlanNeverRaises ==
    job.kind = "plan" => ~job.raised

\* C19: score_links_batch never raises; it returns one result per link,
\* in the order of the links, and every link of a chunk whose LLM call
\* failed for good (rate limit included) or whose response could not be
\* parsed has score 5.
C19_ScoreLinksBatchAlwaysReturns ==
    job.kind = "score" =>
        /\ ~job.raised
        /\ job.pc = "done" =>
              /\ Len(job.result) = Len(job.links)
              /\ \A i \in 1..Len(job.links) :
                    /\ job.result[i].url = job.links[i]
                    /\ job.links[i] \in job.failed => job.result[i].score = 5

\* A batch returned after the call for its last chunk was rate limited on
\* all five attempts, another after a response that was no JSON.
C19_RateLimitedChunkWitness ==
    /\ job.kind = "score" /\ job.pc = "done"
    /\ llm.status = "raised" /\ llm.exc = "RetryError" /\ llm.failures = 5
    /\ job.failed # {}
    /\ \E i \in 1..Len(job.result) : job.result[i].score = 5

\* C20: a call that returns after k retried failures has made k + 1
\* attempts, with k < 5; a call whose attempts all fail with a retried
\* error ends in an error after exactly 5 attempts; no call makes a sixth
\* attempt, and an attempt follows another only after a retried failure.
C20_RetriedUpToFiveAttempts ==
    /\ llm.attempt_number <= 5
    /\ llm.status = "running" =>
          llm.attempt_number = llm.failures /\ llm.failures < 5
    /\ llm.status = "returned" =>
          llm.attempt_number = llm.failures + 1 /\ llm.failures < 5
    /\ (llm.status = "raised" /\ llm.exc = "RetryError") =>
          llm.attempt_number = 5 /\ llm.failures = 5
    /\ (llm.status = "raised" /\ llm.exc # "RetryError") =>
          llm.attempt_number = llm.failures + 1 /\ ~ShouldRetry(llm.exc)

\* A call that succeeded on its fifth attempt.
C20_FifthAttemptSucceedsWitness ==
    llm.status = "returned" /\ llm.failures = 4 /\ llm.attempt_number = 5
\* ========================================================================
\* Properties of the repository (checked under SpecRepo)
\* ========================================================================

\* C21, as stated: after any sequence of save_entity calls, the persisted
\* evidence of a canonical name holds each distinct (source_url, content)
\* pair ever saved for it exactly once, and nothing else.
C21_EachSavedPairPersistedOnce ==
    \A n \in Names :
        /\ \A sv \in saved : sv[1] = n =>
              Cardinality({i \in 1..Len(dbEvidence[n]) :
                              Signature(dbEvidence[n][i]) = sv[2]}) = 1
        /\ \A i \in 1..Len(dbEvidence[n]) : <<n, Signature(dbEvidence[n][i])>> \in saved

\* C22, as stated: get_session(id) after save_session(s) with s.id = id
\* returns a state equal to s (updated_at is a column of the row, no field
\* of the state), for every state the orchestrator saves, whatever its
\* status.
C22_GetAfterSaveYieldsSavedState ==
    (repo.op = "get_session" /\ lastSaved[repo.key] # NoDump)
        => (repo.raised = None /\ repo.result = lastSaved[repo.key])

\* ========================================================================
\* Properties of the personal queues (checked under SpecQueue)
\* ========================================================================

\* C23: every worker's personal_queue holds at most MAX_QUEUE_SIZE URLs at
\* every iteration boundary (the queues change at the fan-in only), and a
\* worker iteration accepts no more links than MAX_QUEUE_SIZE minus the size
\* of the queue it holds.
C23_QueueWithinMaxQueueSize ==
    /\ \A w \in WorkerIds : Len(state.workers[w].personal_queue) <= MAX_QUEUE_SIZE
    /\ \A w \in WorkerIds :
          task[w].pc \in {"persist_write", "done"} =>
              Len(task[w].result.discovered_links)
                  <= MAX_QUEUE_SIZE - Len(task[w].worker.personal_queue)

\* C23, witness: a worker iteration held a queue one short of the limit,
\* fetched a page with more than one new link and accepted a single one;
\* the fan-in has brought its queue to exactly MAX_QUEUE_SIZE.
C23_TruncatedWitness ==
    \E w \in WorkerIds :
        /\ pc \in {"plan", "vsave"}
        /\ state.iteration_count = 2
        /\ Len(state.workers[w].personal_queue) = MAX_QUEUE_SIZE
        /\ MAX_QUEUE_SIZE + ExtraLinks + 1 \in Range(state.workers[w].personal_queue)
        /\ MAX_QUEUE_SIZE + ExtraLinks + 2 \notin Range(state.workers[w].personal_queue)

\* C27: when the run has reached FINAL and returned, the status is
\* "completed", the persisted state is that state, and the returned summary
\* carries the number of known entities, the iteration count and the status
\* "completed".
C27_FinalSummary ==
    pc = "done" =>
        /\ state.status = "completed"
        /\ persisted = state
        /\ ret.status = "completed"
        /\ ret.iterations = state.iteration_count
        /\ \E S \in SUBSET Names :
              /\ \A n \in Names : (n \in S) <=> state.known_entities[n].exists
              /\ ret.entities_found = Cardinality(S)

\* A finished run that found two entities, one of which was not verified.
C27_FinalSummaryWitness ==
    /\ pc = "done"
    /\ ret.entities_found = 2
    /\ \E n \in Names : /\ state.known_entities[n].exists
                         /\ state.known_entities[n].verification_status # "VERIFIED"

\* C28: the fan-in leaves the loop for verification exactly when the new
\* entities of the iteration just aggregated are fewer than 5% of its pages
\* (at least one page counted) and two or more iterations have completed;
\* otherwise it goes on to planning.
C28_SaturationExactly ==
    [][(pc = "gather" /\ pc' \in {"vsave", "plan"}) =>
        LET returned == {w \in WorkerIds : task[w].pc = "done"}
            news == [w \in WorkerIds |->
                       IF w \in returned THEN task[w].result.new_entities ELSE 0]
            pages == [w \in WorkerIds |->
                       IF w \in returned THEN task[w].result.pages_fetched ELSE 0]
            total_new == news["A"] + news["B"]
            total_pages == pages["A"] + pages["B"]
            low == IF total_pages = 0 THEN total_new = 0
                   ELSE 100 * total_new < 5 * total_pages
        IN  /\ state'.iteration_count = state.iteration_count + 1
            /\ (pc' = "vsave") <=> (low /\ state'.iteration_count >= 2)]_vars

\* The loop was left on saturation after the second iteration (the state
\* of the first iteration is the last one saved), and the first iteration,
\* which fetched a page and found nothing new either, had not left it.
C28_SaturatedWitness ==
    /\ pc = "vsave"
    /\ state.iteration_count = 2
    /\ persisted.iteration_count = 1
    /\ \A w \in WorkerIds : state.workers[w].new_entities = 0
    /\ \E w \in WorkerIds : /\ persisted.workers[w].pages_fetched >= 1
                             /\ state.workers[w].pages_fetched >= 2

\* C24: when the second of two runs with the same vendor responses has
\* returned, its known_entities are those the first run returned with.
C24_SecondRunSameEntities ==
    (pc = "done" /\ run.n = 2) => state.known_entities = run.first

C29_VisitedOnlyWithRow ==
    \A k \in visitedTrue : k \in dbVisited

\* C25: visit state is scoped per session.  is_url_visited(u, r) has
\* returned True only if mark_url_visited(u, r) was called with that very
\* research_id, whatever was marked under the other one; and a call of
\* mark_url_visited(u, r) has returned False only if a row (u, r) was there
\* (so the first call for the pair returns True).
C25_PerSessionScoping ==
    \A k \in UrlKeys :
        /\ k \in visitedTrue =>
              \/ urlReturns[k].t + urlReturns[k].f > 0
              \/ \E p \in Callers : call[p].op = "mark_url" /\ call[p].key = k
        /\ urlReturns[k].f > 0 => k \in dbVisited

\* C30: no known entity has its own canonical_name among its aliases.
C30_NoCanonicalAmongAliases ==
    \A n \in Names :
        state.known_entities[n].exists => n \notin state.known_entities[n].aliases

\* C31: the fan-in is commutative.  Whenever a round's results are all in,
\* aggregating them in the order of the tasks and in the reverse order
\* gives the same outcome: both raise or neither does, and every entity has
\* the same alias set, the same set of evidence snippets and the same
\* mention_count.
C31_AggregationCommutative ==
    (pc = "gather" /\ \A w \in WorkerIds : task[w].pc \in {"idle", "done"}) =>
        LET ab == AggregateAll(state, ResultsInOrder(<<"A", "B">>))
            ba == AggregateAll(state, ResultsInOrder(<<"B", "A">>))
        IN  /\ ab.raised = ba.raised
            /\ ~ab.raised =>
                 \A n \in Names :
                    LET x == ab.state.known_entities[n]
                        y == ba.state.known_entities[n]
                    IN  /\ x.exists = y.exists
                        /\ x.aliases = y.aliases
                        /\ Range(x.evidence) = Range(y.evidence)
                        /\ x.mention_count = y.mention_count

\* Both workers returned results about the same entity, from different
\* pages, with different aliases.
C31_TwoResultsSameEntityWitness ==
    /\ pc = "gather"
    /\ \A w \in WorkerIds : task[w].pc = "done"
    /\ \E i \in 1..Len(task["A"].result.extracted_data),
          j \in 1..Len(task["B"].result.extracted_data) :
          LET a == task["A"].result.extracted_data[i]
              b == task["B"].result.extracted_data[j]
          IN  /\ a.canonical = b.canonical
              /\ a.evidence # b.evidence
              /\ a.alias # b.alias

\* C37: within one worker iteration no URL is fetched more than once: the
\* URLs a task hands to extract_batch are pairwise different, even when
\* url_queue holds a URL several times.
C37_NoUrlFetchedTwiceInIteration ==
    \A w \in TaskIds :
        \A i, j \in 1..Len(task[w].valid_urls) :
            task[w].valid_urls[i] = task[w].valid_urls[j] => i = j

\* C40: a URL leaves a worker's personal_queue only in an iteration in which
\* that worker examined it.  An examined URL was found visited or was
\* marked, so at the fan-in that removes it the DedupStore knows it (a
\* row, or the cache entry mark_url_visited writes when its insert fails).
C40_QueuedUrlLeavesOnlyExamined ==
    [][pc = "gather" =>
          \A w \in WorkerIds :
             \A u \in Range(state.workers[w].personal_queue) :
                u \notin Range(state'.workers[w].personal_queue) =>
                    <<u, SessionId>> \in dbVisited \cup cacheVisited]_vars

\* C32: an exception on one URL of the batch (a PDF that was downloaded
\* and fails structured extraction among them) is skipped and the iteration
\* still returns: an iteration that has URLs to fetch never ends in failure.
C32_UrlFailureSkipped ==
    \A w \in TaskIds : task[w].pc = "failed" => task[w].valid_urls = <<>>

\* C33: a failing search call never makes the iteration raise: no
\* iteration ends in failure before it has composed its url_queue.
C33_SearchFailureNeverRaises ==
    \A w \in TaskIds : ~(task[w].pc = "failed" /\ task[w].url_queue = <<>>)

\* C34: when the run has reached completed, every entity of known_entities
\* carries a status the verifier gave, and none is UNVERIFIED.
C34_AllVerifiedAtCompletion ==
    pc = "done" =>
        \A n \in Names : state.known_entities[n].exists =>
            state.known_entities[n].verification_status \in VerifierStatuses

\* C36: at the start of an iteration the worker's explored_domains holds
\* the netloc of every URL the worker fetched in the iterations before.
C36_ExploredDomainsCarriedOver ==
    \A w \in WorkerIds :
        task[w].pc = "search" =>
            \A f \in fetched :
                (f[2] = w /\ f[3] < task[w].round) =>
                    Netloc(f[1]) \in task[w].worker.explored_domains

\* C38: the pages_fetched of a worker result never exceeds the page_budget
\* the plan assigned to that worker.
C38_PagesWithinPlanBudget ==
    \A w \in WorkerIds :
        task[w].pc = "done" =>
            \A cfg \in state.plan.initial_workers :
                (cfg.worker_id = w /\ "page_budget" \in DOMAIN cfg) =>
                    task[w].result.pages_fetched <= cfg.page_budget

\* C35: the intermediate write of a worker changes only that worker's own
\* metrics in the persisted session: the persisted metrics of every other
\* worker are the same before and after it.
C35_CheckpointKeepsOtherWorkers ==
    [][\A w \in WorkerIds :
          (task[w].pc = "persist_write" /\ task'[w].pc = "done") =>
              \A v \in WorkerIds \ {w} :
                  persisted'.workers[v] = persisted.workers[v]]_vars

\* C39: no personal_queue holds a URL twice and no URL is in the personal
\* queues of two workers.
C39_QueuedAtMostOnce ==
    /\ \A w \in WorkerIds :
          LET q == state.workers[w].personal_queue IN
          \A i, j \in 1..Len(q) : q[i] = q[j] => i = j
    /\ \A w, v \in WorkerIds :
          w # v => Range(state.workers[w].personal_queue)
                   \cap Range(state.workers[v].personal_queue) = {}

\* A worker result names a discovered link that is in the personal queue
\* of another worker.
C39_RediscoveredWitness ==
    /\ pc = "gather"
    /\ \E w \in WorkerIds, v \in WorkerIds :
          /\ w # v
          /\ task[w].pc = "done"
          /\ \E i \in 1..Len(task[w].result.discovered_links) :
                task[w].result.discovered_links[i]
                    \in Range(state.workers[v].personal_queue)

====
